---- MODULE Spec2Model ----
(***************************************************************************)
(* Incident aggregation and escalation engine of the video-editor-api:     *)
(* IncidentManager.register() and IncidentManager.tail() over the          *)
(* incident_events / incident_states tables and the report files.          *)
(*                                                                         *)
(* Every Db call (fetchone, fetchall, execute) takes the Db lock for that  *)
(* one statement only, so a register() is a series of separately atomic    *)
(* steps: read the clock, fetch the prior state, count the window, decide  *)
(* and write the report, insert the event, upsert the state, return.       *)
(* tail() is the stale sweep followed by the select.                       *)
(*                                                                         *)
(* Several specifications share the store actions.  Spec: two threads      *)
(* register the same signature concurrently and one of them also calls     *)
(* tail(), under two configurations.                                       *)
(* SpecSeq: a single thread makes every call, over two signatures and two  *)
(* configurations.  SpecRapid: a single thread and a single signature      *)
(* under the default thresholds 3/5/8.                                     *)
(* SpecRedact: the redaction that register() applies to the context of a   *)
(* call, over a bounded set of context trees.                              *)
(* SpecCall: the texts of one or two register() calls, from the arguments  *)
(* through the safe_* values and the fingerprint to the bound columns.     *)
(* SpecFault: one thread serving both producers (log_error and the         *)
(* client-events handler) and tail(), where a Db statement or the report   *)
(* write may raise and a stored snapshot text may be cut short.            *)
(* SpecConfig: the construction of the manager from its arguments.         *)
(* SpecTail: one thread registers and reads, a second one reads, over two  *)
(* signatures.  SpecLive: the Db lock made explicit, with a registering    *)
(* thread, a reading thread and a job, under fair scheduling.              *)
(* SpecJobs: create_job and submit_async_job with the executor's pool.     *)
(* SpecVideo: the pipelines that move a videos row through its statuses.   *)
(* SpecSilence: parse_silences over bounded detector output.               *)
(*                                                                         *)
(* Time is counted in whole minutes.  A stored timestamp is the text that  *)
(* iso_from_dt produces, modelled as a fixed-width pair of decimal digits  *)
(* and compared the way SQLite compares text (position by position).       *)
(***************************************************************************)
EXTENDS FiniteSets, Integers, Sequences, TLC

\* ------------------------------------------------------------------ bounds
\* rows of incident_events explored when one thread calls the engine
MaxEvents == 4
\* rows of incident_events explored when several threads call the engine
MaxRaceEvents == 2
\* minutes the clock runs on after a full reset delay has elapsed
MaxElapsed == 1
\* largest limit passed to tail()
MaxLimit == 2
\* largest number of keys of a context passed to register()
MaxEntries == 2
\* largest value of a constructor argument of IncidentManager
MaxArg == 2
\* register() calls that the producers make when calls may fail
MaxCalls == 2
\* jobs submitted with submit_async_job
MaxJobs == 3
\* lines of detector output that parse_silences reads
MaxLines == 3
\* register() calls made while the holder of the Db lock is followed
MaxLiveCalls == 1

JobIds == 1..MaxJobs
VideoIds == {"v1", "v2"}

Threads == {"t1", "t2"}
Fingerprints == {"fa", "fb"}

\* ----------------------------------------------------------- configuration
\* the keyword defaults of IncidentManager.__init__
DefaultArgs ==
  [window_minutes |-> 15, reset_minutes |-> 30, level_l1 |-> 3, level_l2 |-> 5, level_l3 |-> 8]

\* constructor arguments with the reset delay equal to the window
TightArgs ==
  [window_minutes |-> 1, reset_minutes |-> 1, level_l1 |-> 1, level_l2 |-> 2, level_l3 |-> 3]

\* constructor arguments under which the first event is at level 2 and the
\* second at level 3
SteepArgs ==
  [window_minutes |-> 1, reset_minutes |-> 1, level_l1 |-> 1, level_l2 |-> 1, level_l3 |-> 2]

\* the default thresholds with a short window and reset delay
RapidArgs == [DefaultArgs EXCEPT !.window_minutes = 1, !.reset_minutes = 2]

\* constructor arguments with the reset delay above the window
StepArgs ==
  [window_minutes |-> 1, reset_minutes |-> 2, level_l1 |-> 1, level_l2 |-> 2, level_l3 |-> 3]

\* constructor arguments whose window, reset delay and second threshold are
\* below their floors
FloorArgs ==
  [window_minutes |-> 0, reset_minutes |-> 0, level_l1 |-> 2, level_l2 |-> 1, level_l3 |-> 3]

Max(a, b) == IF a >= b THEN a ELSE b

\* the effective configuration with the reset delay and the thresholds taken
\* as given
EffectiveConfig_unfloored(a) ==
  [window_minutes |-> Max(1, a.window_minutes), reset_minutes |-> Max(1, a.reset_minutes),
   level_l1 |-> Max(1, a.level_l1), level_l2 |-> Max(1, a.level_l2),
   level_l3 |-> Max(1, a.level_l3)]

\* IncidentManager.__init__: the effective configuration
EffectiveConfig(a) ==
  LET w  == Max(1, a.window_minutes)
      r  == Max(w, a.reset_minutes)
      l1 == Max(1, a.level_l1)
      l2 == Max(l1, a.level_l2)
      l3 == Max(l2, a.level_l3)
  IN  [window_minutes |-> w, reset_minutes |-> r, level_l1 |-> l1, level_l2 |-> l2, level_l3 |-> l3]

\* ------------------------------------------------------------- timestamps
\* iso_from_dt: a time as fixed-width text (two decimal digits)
iso_from_dt(v) == <<v \div 10, v % 10>>

\* parse_iso_utc: the time a stored text denotes
parse_iso_utc(s) == s[1] * 10 + s[2]

\* text comparison of two stored timestamps, as SQLite's < on text
TextLt(a, b) == \/ a[1] < b[1]
                \/ a[1] = b[1] /\ a[2] < b[2]

\* text comparison of two stored timestamps, as SQLite's >= on text
TextGe(a, b) == ~TextLt(a, b)

\* -------------------------------------------------------------- redaction
\* A value of the dynamically typed tree that redact_data walks.  kind is one
\* of none, str, int, bool, list, tuple, dict, obj (any other object, text
\* being its str()).  A string is a sequence of lexemes, a mapping is its keys
\* in insertion order with the items at the same positions, and a key is a
\* sequence of name parts.
Value(k, t, n, ks, xs) == [kind |-> k, text |-> t, num |-> n, keys |-> ks, items |-> xs]
None == Value("none", <<>>, 0, <<>>, <<>>)
Str(t) == Value("str", t, 0, <<>>, <<>>)
IntVal(n) == Value("int", <<>>, n, <<>>, <<>>)
Bool(n) == Value("bool", <<>>, n, <<>>, <<>>)
Obj(t) == Value("obj", t, 0, <<>>, <<>>)
List(xs) == Value("list", <<>>, 0, <<>>, xs)
Tuple(xs) == Value("tuple", <<>>, 0, <<>>, xs)
Dict(ks, xs) == Value("dict", <<>>, 0, ks, xs)

\* a variable of a call that has not been made
NoValue == Value("unset", <<>>, 0, <<>>, <<>>)

\* the caps of redact_data: recursion depth, list items, mapping keys, string
\* length (counted in lexemes)
DepthCap == 8
ListCap == 200
DictCap == 300
TextCap == 16000

Mask == "***"
DepthMarker == "***depth_limit***"

\* re.IGNORECASE over the name parts the explored keys are made of
Lower(a) ==
  CASE a = "Token" -> "token"
    [] a = "API" -> "api"
    [] a = "KEY" -> "key"
    [] a = "Password" -> "password"
    [] OTHER -> a

\* the alternatives of SENSITIVE_KEY_RE, as sequences of name parts
SensitiveNames ==
  {<<"token">>, <<"password">>, <<"passwd">>, <<"pwd">>, <<"cookie">>, <<"authorization">>,
   <<"secret">>, <<"api", "key">>, <<"api", "_", "key">>, <<"api", "-", "key">>}

\* SENSITIVE_KEY_RE.search(key_hint): some stretch of the key is an alternative
SensitiveKey(key_hint) ==
  \E i \in 1..Len(key_hint) : \E j \in i..Len(key_hint) :
    [k \in 1..(j - i + 1) |-> Lower(key_hint[i + k - 1])] \in SensitiveNames

\* the lexemes made only of the characters A-Za-z0-9._~+/=- (what may follow
\* "Bearer "), those that sk-[A-Za-z0-9]{8,} matches and those that
\* xox[pbars]-[A-Za-z0-9-]{8,} matches
BearerWords == {"Bearer", "bearer"}
TokenWords == {"ok", "abcd", "Bearer", "bearer", "sk-AAAAAAAA", "sk-short", "xoxb-12345678"}
SkWords == {"sk-AAAAAAAA"}
XoxWords == {"xoxb-12345678"}

\* the first pattern of SENSITIVE_VALUE_PATTERNS: "Bearer" and the token after
\* it become one mask
RECURSIVE sub_bearer(_)
sub_bearer(t) ==
  IF t = <<>> THEN <<>>
  ELSE IF Len(t) >= 2 /\ t[1] \in BearerWords /\ t[2] \in TokenWords
       THEN <<Mask>> \o sub_bearer(SubSeq(t, 3, Len(t)))
       ELSE <<t[1]>> \o sub_bearer(Tail(t))

\* the second and third pattern: each matching lexeme becomes the mask
sub_words(t, W) == [i \in DOMAIN t |-> IF t[i] \in W THEN Mask ELSE t[i]]

\* redact_string: the patterns applied one after the other
redact_string(raw) == sub_words(sub_words(sub_bearer(raw), SkWords), XoxWords)

\* value[:cap]
Clip(t, cap) == SubSeq(t, 1, IF Len(t) < cap THEN Len(t) ELSE cap)

\* redact_data without the depth test
RECURSIVE redact_data_uncapped(_, _, _)
redact_data_uncapped(value, key_hint, depth) ==
  CASE value.kind = "none" -> None
    [] value.kind = "str" ->
         IF SensitiveKey(key_hint) THEN Str(<<Mask>>)
         ELSE Str(Clip(redact_string(value.text), TextCap))
    [] value.kind \in {"int", "bool"} -> value
    [] value.kind \in {"list", "tuple"} ->
         LET xs == Clip(value.items, ListCap)
         IN  List([i \in DOMAIN xs |-> redact_data_uncapped(xs[i], key_hint, depth + 1)])
    [] value.kind = "dict" ->
         LET ks == Clip(value.keys, DictCap)
         IN  Dict(ks, [i \in DOMAIN ks |->
                         redact_data_uncapped(value.items[i], ks[i], depth + 1)])
    [] OTHER -> Str(Clip(redact_string(value.text), TextCap))

\* redact_data
RECURSIVE redact_data(_, _, _)
redact_data(value, key_hint, depth) ==
  IF depth > DepthCap THEN Str(<<DepthMarker>>)
  ELSE CASE value.kind = "none" -> None
         [] value.kind = "str" ->
              IF SensitiveKey(key_hint) THEN Str(<<Mask>>)
              ELSE Str(Clip(redact_string(value.text), TextCap))
         [] value.kind \in {"int", "bool"} -> value
         [] value.kind \in {"list", "tuple"} ->
              LET xs == Clip(value.items, ListCap)
              IN  List([i \in DOMAIN xs |-> redact_data(xs[i], key_hint, depth + 1)])
         [] value.kind = "dict" ->
              LET ks == Clip(value.keys, DictCap)
              IN  Dict(ks, [i \in DOMAIN ks |-> redact_data(value.items[i], ks[i], depth + 1)])
         [] OTHER -> Str(Clip(redact_string(value.text), TextCap))

\* ------------------------------------------------------------------ state
NullPath == <<>>

\* the empty mapping that tail() starts last_event from
EmptyEvent == [signature |-> "", level |-> 0, count_15m |-> 0, ts |-> <<>>]

\* The text of column last_event_json: the document written and whether the
\* text runs to its closing brace.  NullJson is the column left null.
JsonText(d, c) == [null |-> FALSE, doc |-> d, closed |-> c]
NullJson == [null |-> TRUE, doc |-> EmptyEvent, closed |-> FALSE]

\* json.dumps: the complete text of a document
json_dumps(d) == JsonText(d, TRUE)

\* tail(): last_event, json.loads of the column under contextlib.suppress
loaded(text) ==
  IF text.null THEN EmptyEvent
  ELSE IF text.closed THEN text.doc
  ELSE EmptyEvent

NoRow == [fingerprint |-> "", level |-> 0, count_15m |-> 0, first_seen_at |-> <<>>,
          last_seen_at |-> <<>>, reset_applied |-> FALSE, report_path |-> NullPath,
          updated_at |-> <<>>, last_event_json |-> NullJson]

VARIABLES
  ctor_args,      \* the arguments IncidentManager is constructed with
  cfg,            \* the manager's effective configuration
  callers,        \* the threads that call register()
  operators,      \* the threads that call tail()
  signatures,     \* the fingerprints of the failures the producers report
  clock,          \* the time source, in minutes
  events,         \* table incident_events, in insertion (id) order
  states,         \* table incident_states, keyed by fingerprint
  rowids,         \* the fingerprints of incident_states in rowid (insertion) order
  writes,         \* the report file writes done so far, in order
  pc,             \* where each thread is in register() / tail()
  fp,             \* register(): fingerprint of the call's signature
  now,            \* register(): now
  prev,           \* register(): prev
  reset_applied,  \* register(): reset_applied
  count_15m,      \* register(): count_15m
  level,          \* register(): level
  report_path,    \* register(): report_path
  tnow,           \* tail(): now of _apply_stale_resets
  out,            \* tail(): out
  context,        \* register(): the context argument of the call being redacted
  safe_context_raw,  \* register(): safe_context_raw
  log,            \* the entries the producers wrote to the application log
  calls,          \* the arguments of the register() calls whose texts are followed
  safe,           \* register(): the safe_* values and the fingerprint of each call
  persisted,      \* the text columns each call bound to its two statements
  jobs,           \* table jobs: the status of each job id
  active_futures, \* the job ids that are keys of active_futures
  submitter,      \* where the thread that submits each job is
  worker,         \* where the pool thread that runs wrapped() of each job is
  videos,         \* table videos: the status of each video id
  pipeline,       \* the pipeline run of each video
  detected,       \* the arguments of a parse_silences call
  segments,       \* parse_silences: the list it returns
  db_lock         \* Db.lock: the thread or job that holds it and the statement it took it for

vars == <<ctor_args, cfg, callers, operators, signatures, clock, events, states, rowids, writes, pc, fp, now, prev, reset_applied,
          count_15m, level, report_path, tnow, out, context, safe_context_raw, log, calls, safe, persisted,
          jobs, active_futures, submitter, worker, videos, pipeline, detected, segments, db_lock>>

regLocals == <<fp, now, prev, reset_applied, count_15m, level, report_path>>
tailLocals == <<tnow, out>>
redaction == <<context, safe_context_raw>>
texts == <<calls, safe, persisted>>
bookkeeping == <<jobs, active_futures, submitter, worker>>
cutting == <<detected, segments>>
media == <<videos, pipeline, cutting>>
env == <<ctor_args, cfg, callers, operators, signatures, redaction, log, texts, bookkeeping, media, db_lock>>
store == <<events, states, rowids, writes>>

\* level_from_count with exclusive thresholds
level_from_count_strict(c) ==
  IF c > cfg.level_l3 THEN 3
  ELSE IF c > cfg.level_l2 THEN 2
  ELSE IF c > cfg.level_l1 THEN 1
  ELSE 0

\* IncidentManager.level_from_count
level_from_count(c) ==
  IF c >= cfg.level_l3 THEN 3
  ELSE IF c >= cfg.level_l2 THEN 2
  ELSE IF c >= cfg.level_l1 THEN 1
  ELSE 0

\* register() calls that have started and not yet inserted their event
Pending == {t \in Threads : pc[t] \in {"fetch_prev", "count", "report", "insert"}}

\* the log is explored up to MaxEvents rows or up to the top threshold for a
\* single thread, and up to MaxRaceEvents rows for concurrent threads
EventCap ==
  IF Cardinality(callers \cup operators) > 1
  THEN MaxRaceEvents ELSE Max(MaxEvents, cfg.level_l3)

\* the threads of the process and an empty store
InitTables(who, ops, sigs) ==
  /\ callers = who
  /\ operators = ops
  /\ signatures = sigs
  /\ events = <<>>
  /\ states = [f \in Fingerprints |-> NoRow]
  /\ rowids = <<>>
  /\ writes = <<>>
  /\ pc = [t \in Threads |-> "idle"]
  /\ fp = [t \in Threads |-> ""]
  /\ now = [t \in Threads |-> 0]
  /\ prev = [t \in Threads |-> NoRow]
  /\ reset_applied = [t \in Threads |-> FALSE]
  /\ count_15m = [t \in Threads |-> 0]
  /\ level = [t \in Threads |-> 0]
  /\ report_path = [t \in Threads |-> NullPath]
  /\ tnow = [t \in Threads |-> 0]
  /\ out = [t \in Threads |-> <<>>]

\* the engine after construction, with no call made
InitStore(args, who, ops, sigs) ==
  /\ \E a \in args : ctor_args = a /\ cfg = EffectiveConfig(a)
  /\ clock = cfg.reset_minutes
  /\ InitTables(who, ops, sigs)

\* no call whose texts are followed
NoTexts ==
  /\ calls = <<>>
  /\ safe = <<>>
  /\ persisted = <<>>

\* Db.lock held by nobody
Free == [thread |-> "", job |-> 0, at |-> ""]

\* Db.__init__: self.lock = threading.Lock()
Unlocked == db_lock = Free

\* no job created and nothing submitted to the executor
NoJobs ==
  /\ jobs = [j \in JobIds |-> ""]
  /\ active_futures = {}
  /\ submitter = [j \in JobIds |-> "idle"]
  /\ worker = [j \in JobIds |-> "none"]

\* no parse_silences call
NoDetection ==
  [stderr |-> <<>>, total_duration |-> 0, padding_before |-> 0, padding_after |-> 0,
   min_segment_duration |-> 0]

\* the result of a parse_silences call that has not been made
Unparsed == [parsed |-> FALSE, list |-> <<>>]

\* a video for which no pipeline has been started
NoRun == [kind |-> "", at |-> "", include_subtitles |-> FALSE, subtitles_status |-> "", raised |-> {}]

\* no video record and no pipeline run
NoVideos ==
  /\ videos = [v \in VideoIds |-> ""]
  /\ pipeline = [v \in VideoIds |-> NoRun]

\* no detector output parsed
NoCut ==
  /\ detected = NoDetection
  /\ segments = Unparsed

\* the engine before any call, with no job and no video
Idle ==
  /\ context = NoValue
  /\ safe_context_raw = NoValue
  /\ log = <<>>
  /\ NoTexts

InitWith(args, who, ops, sigs) ==
  /\ InitStore(args, who, ops, sigs)
  /\ Idle
  /\ NoJobs
  /\ Unlocked
  /\ NoVideos
  /\ NoCut

\* two threads report the same failure signature while one of them also
\* reads the incident list
Init == InitWith({TightArgs, SteepArgs}, Threads, {"t1"}, {"fa"})

\* one thread calls the engine: every call ends before the next starts
InitSeq == InitWith({StepArgs, FloorArgs}, {"t1"}, {"t1"}, Fingerprints)

\* one thread calls register() and tail(), a second thread calls tail()
InitTail == InitWith({StepArgs}, {"t1"}, Threads, Fingerprints)

\* one thread reports one failure signature to a manager built with the
\* default arguments
InitRapid == InitWith({RapidArgs}, {"t1"}, {"t1"}, {"fa"})

\* ---------------------------------------------------------------- actions
\* the time source advances by a minute
Tick ==
  /\ clock < 2 * cfg.reset_minutes + MaxElapsed
  /\ clock' = clock + 1
  /\ UNCHANGED <<env, store, pc, regLocals, tailLocals>>

\* register(): read the clock, redact, compute the fingerprint
Begin(t, f) ==
  /\ t \in callers
  /\ f \in signatures
  /\ pc[t] = "idle"
  /\ Len(events) + Cardinality(Pending) < EventCap
  /\ pc' = [pc EXCEPT ![t] = "fetch_prev"]
  /\ fp' = [fp EXCEPT ![t] = f]
  /\ now' = [now EXCEPT ![t] = clock]
  /\ UNCHANGED <<env, clock, store, prev, reset_applied, count_15m, level,
                 report_path, tailLocals>>

\* FetchPrev with the reset flag set only beyond reset_minutes
FetchPrev_strict(t) ==
  /\ pc[t] = "fetch_prev"
  /\ LET p == states[fp[t]]
     IN  /\ prev' = [prev EXCEPT ![t] = p]
         /\ reset_applied' = [reset_applied EXCEPT ![t] =
                /\ p # NoRow
                /\ now[t] - parse_iso_utc(p.last_seen_at) > cfg.reset_minutes]
  /\ pc' = [pc EXCEPT ![t] = "count"]
  /\ UNCHANGED <<env, clock, store, fp, now, count_15m, level, report_path, tailLocals>>

\* register(): load the prior state and compute the reset flag
FetchPrev(t) ==
  /\ pc[t] = "fetch_prev"
  /\ LET p == states[fp[t]]
     IN  /\ prev' = [prev EXCEPT ![t] = p]
         /\ reset_applied' = [reset_applied EXCEPT ![t] =
                /\ p # NoRow
                /\ now[t] - parse_iso_utc(p.last_seen_at) >= cfg.reset_minutes]
  /\ pc' = [pc EXCEPT ![t] = "count"]
  /\ UNCHANGED <<env, clock, store, fp, now, count_15m, level, report_path, tailLocals>>

\* WindowRows with the window's edge excluded
WindowRows_strict(f, n) ==
  LET window_start == iso_from_dt(n - cfg.window_minutes)
  IN  {i \in DOMAIN events :
         /\ events[i].fingerprint = f
         /\ TextLt(window_start, events[i].event_ts)}

\* WindowRows without the time bound
WindowRows_all(f, n) ==
  {i \in DOMAIN events : events[i].fingerprint = f}

\* WindowRows with the window a minute longer
WindowRows_wide(f, n) ==
  LET window_start == iso_from_dt(n - cfg.window_minutes - 1)
  IN  {i \in DOMAIN events :
         /\ events[i].fingerprint = f
         /\ TextGe(events[i].event_ts, window_start)}

\* the rows of incident_events the window query of a call at time n counts
WindowRows(f, n) ==
  LET window_start == iso_from_dt(n - cfg.window_minutes)
  IN  {i \in DOMAIN events :
         /\ events[i].fingerprint = f
         /\ TextGe(events[i].event_ts, window_start)}

\* register(): the window query, the count and the level
Count(t) ==
  /\ pc[t] = "count"
  /\ LET c == Cardinality(WindowRows(fp[t], now[t])) + 1
     IN  /\ count_15m' = [count_15m EXCEPT ![t] = c]
         /\ level' = [level EXCEPT ![t] = level_from_count(c)]
  /\ pc' = [pc EXCEPT ![t] = "report"]
  /\ UNCHANGED <<env, clock, store, fp, now, prev, reset_applied, report_path,
                 tailLocals>>

\* register(): prev_level
prev_level(t) == IF prev[t] # NoRow THEN prev[t].level ELSE 0

\* register(): the report path carried over from the prior state
carried_path(t) ==
  IF prev[t] # NoRow /\ prev[t].report_path # NullPath THEN prev[t].report_path ELSE NullPath

\* should_report without the step into level 3
should_report_once(t) ==
  /\ level[t] >= 2
  /\ \/ prev_level(t) < 2
     \/ carried_path(t) = NullPath

\* should_report for every event at level 2 or above
should_report_always(t) ==
  level[t] >= 2

\* register(): the condition under which _write_report is called
should_report(t) ==
  /\ level[t] >= 2
  /\ \/ prev_level(t) < 2
     \/ prev_level(t) < 3 /\ level[t] >= 3
     \/ carried_path(t) = NullPath

\* _write_report: the file name, from the fingerprint and the clock read there
report_file(f) == <<f>> \o iso_from_dt(clock)

\* register(): write the report or carry the previous path forward
Report(t) ==
  /\ pc[t] = "report"
  /\ IF should_report(t)
     THEN /\ writes' = Append(writes, [path |-> report_file(fp[t]), level |-> level[t],
                                       count_15m |-> count_15m[t]])
          /\ report_path' = [report_path EXCEPT ![t] = report_file(fp[t])]
     ELSE /\ writes' = writes
          /\ report_path' = [report_path EXCEPT ![t] = carried_path(t)]
  /\ pc' = [pc EXCEPT ![t] = "insert"]
  /\ UNCHANGED <<env, clock, events, states, rowids, fp, now, prev, reset_applied,
                 count_15m, level, tailLocals>>

\* Insert that rewrites the fingerprint's latest row instead of appending
Insert_rewrite(t) ==
  /\ pc[t] = "insert"
  /\ LET row == [fingerprint |-> fp[t], level |-> level[t],
                 count_15m |-> count_15m[t],
                 event_ts |-> iso_from_dt(now[t]),
                 report_path |-> report_path[t]]
         own == {i \in DOMAIN events : events[i].fingerprint = fp[t]}
     IN  events' = IF own = {} THEN Append(events, row)
                   ELSE [events EXCEPT ![CHOOSE i \in own : \A j \in own : j <= i] = row]
  /\ pc' = [pc EXCEPT ![t] = "upsert"]
  /\ UNCHANGED <<env, clock, states, rowids, writes, regLocals, tailLocals>>

\* register(): append the incident_events row
Insert(t) ==
  /\ pc[t] = "insert"
  /\ events' = Append(events, [fingerprint |-> fp[t], level |-> level[t],
                               count_15m |-> count_15m[t],
                               event_ts |-> iso_from_dt(now[t]),
                               report_path |-> report_path[t]])
  /\ pc' = [pc EXCEPT ![t] = "upsert"]
  /\ UNCHANGED <<env, clock, states, rowids, writes, regLocals, tailLocals>>

\* register(): last_event, with the call's signature standing for its stage,
\* event, error type and message
last_event(t) ==
  [signature |-> fp[t], level |-> level[t], count_15m |-> count_15m[t],
   ts |-> iso_from_dt(now[t])]

\* upserted with report_path overwritten by the call's value, null included
upserted_overwrite(old, t) ==
  LET now_str == iso_from_dt(now[t])
      first_seen == IF prev[t] # NoRow /\ prev[t].first_seen_at # <<>>
                    THEN prev[t].first_seen_at ELSE now_str
  IN  IF old = NoRow
      THEN [fingerprint |-> fp[t], level |-> level[t], count_15m |-> count_15m[t],
            first_seen_at |-> first_seen, last_seen_at |-> now_str,
            reset_applied |-> reset_applied[t], report_path |-> report_path[t],
            updated_at |-> now_str, last_event_json |-> json_dumps(last_event(t))]
      ELSE [old EXCEPT !.level = level[t],
                       !.count_15m = count_15m[t],
                       !.last_seen_at = now_str,
                       !.reset_applied = reset_applied[t],
                       !.report_path = report_path[t],
                       !.updated_at = now_str,
                       !.last_event_json = json_dumps(last_event(t))]

\* upserted with first_seen_at among the columns updated on conflict
upserted_first_seen(old, t) ==
  LET now_str == iso_from_dt(now[t])
      first_seen == IF prev[t] # NoRow /\ prev[t].first_seen_at # <<>>
                    THEN prev[t].first_seen_at ELSE now_str
  IN  IF old = NoRow
      THEN [fingerprint |-> fp[t], level |-> level[t], count_15m |-> count_15m[t],
            first_seen_at |-> first_seen, last_seen_at |-> now_str,
            reset_applied |-> reset_applied[t], report_path |-> report_path[t],
            updated_at |-> now_str, last_event_json |-> json_dumps(last_event(t))]
      ELSE [old EXCEPT !.level = level[t],
                       !.count_15m = count_15m[t],
                       !.first_seen_at = first_seen,
                       !.last_seen_at = now_str,
                       !.reset_applied = reset_applied[t],
                       !.report_path = IF report_path[t] # NullPath
                                       THEN report_path[t] ELSE old.report_path,
                       !.updated_at = now_str,
                       !.last_event_json = json_dumps(last_event(t))]

\* the incident_states row after the upsert statement of register()
upserted(old, t) ==
  LET now_str == iso_from_dt(now[t])
      first_seen == IF prev[t] # NoRow /\ prev[t].first_seen_at # <<>>
                    THEN prev[t].first_seen_at ELSE now_str
  IN  IF old = NoRow
      THEN [fingerprint |-> fp[t], level |-> level[t], count_15m |-> count_15m[t],
            first_seen_at |-> first_seen, last_seen_at |-> now_str,
            reset_applied |-> reset_applied[t], report_path |-> report_path[t],
            updated_at |-> now_str, last_event_json |-> json_dumps(last_event(t))]
      ELSE [old EXCEPT !.level = level[t],
                       !.count_15m = count_15m[t],
                       !.last_seen_at = now_str,
                       !.reset_applied = reset_applied[t],
                       !.report_path = IF report_path[t] # NullPath
                                       THEN report_path[t] ELSE old.report_path,
                       !.updated_at = now_str,
                       !.last_event_json = json_dumps(last_event(t))]

\* register(): upsert the incident_states row
Upsert(t) ==
  /\ pc[t] = "upsert"
  /\ states' = [states EXCEPT ![fp[t]] = upserted(states[fp[t]], t)]
  /\ rowids' = IF states[fp[t]] = NoRow THEN Append(rowids, fp[t]) ELSE rowids
  /\ pc' = [pc EXCEPT ![t] = "ret"]
  /\ UNCHANGED <<env, clock, events, writes, regLocals, tailLocals>>

\* register(): return the summary to the caller
Return(t) ==
  /\ pc[t] = "ret"
  /\ pc' = [pc EXCEPT ![t] = "idle"]
  /\ fp' = [fp EXCEPT ![t] = ""]
  /\ now' = [now EXCEPT ![t] = 0]
  /\ prev' = [prev EXCEPT ![t] = NoRow]
  /\ reset_applied' = [reset_applied EXCEPT ![t] = FALSE]
  /\ count_15m' = [count_15m EXCEPT ![t] = 0]
  /\ level' = [level EXCEPT ![t] = 0]
  /\ report_path' = [report_path EXCEPT ![t] = NullPath]
  /\ UNCHANGED <<env, clock, store, tailLocals>>

\* swept with count_15m left as it was
swept_level_only(row, n) ==
  LET cutoff == iso_from_dt(n - cfg.reset_minutes)
  IN  IF row # NoRow /\ row.level > 0 /\ TextLt(row.last_seen_at, cutoff)
      THEN [row EXCEPT !.level = 0, !.reset_applied = TRUE, !.updated_at = iso_from_dt(n)]
      ELSE row

\* swept with reset_applied left as it was
swept_no_flag(row, n) ==
  LET cutoff == iso_from_dt(n - cfg.reset_minutes)
  IN  IF row # NoRow /\ row.level > 0 /\ TextLt(row.last_seen_at, cutoff)
      THEN [row EXCEPT !.level = 0, !.count_15m = 0, !.updated_at = iso_from_dt(n)]
      ELSE row

\* swept with the cutoff a minute too early
swept_late(row, n) ==
  LET cutoff == iso_from_dt(n - cfg.reset_minutes - 1)
  IN  IF row # NoRow /\ row.level > 0 /\ TextLt(row.last_seen_at, cutoff)
      THEN [row EXCEPT !.level = 0, !.count_15m = 0, !.reset_applied = TRUE,
                       !.updated_at = iso_from_dt(n)]
      ELSE row

\* swept with the cutoff itself counted as stale
swept_inclusive(row, n) ==
  LET cutoff == iso_from_dt(n - cfg.reset_minutes)
  IN  IF row # NoRow /\ row.level > 0 /\ TextGe(cutoff, row.last_seen_at)
      THEN [row EXCEPT !.level = 0, !.count_15m = 0, !.reset_applied = TRUE,
                       !.updated_at = iso_from_dt(n)]
      ELSE row

\* swept without the level condition
swept_any_level(row, n) ==
  LET cutoff == iso_from_dt(n - cfg.reset_minutes)
  IN  IF row # NoRow /\ TextLt(row.last_seen_at, cutoff)
      THEN [row EXCEPT !.level = 0, !.count_15m = 0, !.reset_applied = TRUE,
                       !.updated_at = iso_from_dt(n)]
      ELSE row

\* the update statement of _apply_stale_resets on one row, at time n
swept(row, n) ==
  LET cutoff == iso_from_dt(n - cfg.reset_minutes)
  IN  IF row # NoRow /\ row.level > 0 /\ TextLt(row.last_seen_at, cutoff)
      THEN [row EXCEPT !.level = 0, !.count_15m = 0, !.reset_applied = TRUE,
                       !.updated_at = iso_from_dt(n)]
      ELSE row

\* tail(): _apply_stale_resets
Sweep(t) ==
  /\ t \in operators
  /\ pc[t] = "idle"
  /\ tnow' = [tnow EXCEPT ![t] = clock]
  /\ states' = [g \in Fingerprints |-> swept(states[g], clock)]
  /\ pc' = [pc EXCEPT ![t] = "select"]
  /\ UNCHANGED <<env, clock, events, rowids, writes, regLocals, out>>

\* Matching without the min_level condition
Matching_any_level(a) ==
  {g \in Fingerprints :
     /\ states[g] # NoRow
     /\ a.fingerprint # "" => g = a.fingerprint}

\* tail(): the rows the where clause of the select keeps
Matching(a) ==
  {g \in Fingerprints :
     /\ states[g] # NoRow
     /\ a.fingerprint # "" => g = a.fingerprint
     /\ a.min_level > 0 => states[g].level >= a.min_level}

\* Selected with the rows in ascending order of last_seen_at
Selected_ascending(a) ==
  LET M == Matching(a)
      n == IF Cardinality(M) < a.limit THEN Cardinality(M) ELSE a.limit
  IN  {s \in [1..n -> M] :
         /\ \A i, j \in 1..n : i < j =>
              /\ s[i] # s[j]
              /\ TextGe(states[s[j]].last_seen_at, states[s[i]].last_seen_at)
         /\ \A g \in M : (\A i \in 1..n : s[i] # g) =>
              \A i \in 1..n : TextGe(states[g].last_seen_at, states[s[i]].last_seen_at)}

\* the position of the row of fingerprint g in incident_states
Rowid(g) == CHOOSE i \in DOMAIN rowids : rowids[i] = g

\* the row of g comes before the row of h under `order by last_seen_at desc`:
\* the later last_seen_at first, rows of equal last_seen_at in rowid order
Before(g, h) ==
  \/ TextLt(states[h].last_seen_at, states[g].last_seen_at)
  \/ /\ states[g].last_seen_at = states[h].last_seen_at
     /\ Rowid(g) < Rowid(h)

\* Selected with rows of equal last_seen_at in either order
Selected_any_tie(a) ==
  LET M == Matching(a)
      n == IF Cardinality(M) < a.limit THEN Cardinality(M) ELSE a.limit
  IN  {s \in [1..n -> M] :
         /\ \A i, j \in 1..n : i < j =>
              /\ s[i] # s[j]
              /\ TextGe(states[s[i]].last_seen_at, states[s[j]].last_seen_at)
         /\ \A g \in M : (\A i \in 1..n : s[i] # g) =>
              \A i \in 1..n : TextGe(states[s[i]].last_seen_at, states[g].last_seen_at)}

\* tail(): the result of `order by last_seen_at desc limit ?`, as the set of
\* the one sequence of fingerprints the statement returns
Selected(a) ==
  LET M == Matching(a)
      n == IF Cardinality(M) < a.limit THEN Cardinality(M) ELSE a.limit
  IN  {s \in [1..n -> M] :
         /\ \A i, j \in 1..n : i < j => Before(s[i], s[j])
         /\ \A g \in M : (\A i \in 1..n : s[i] # g) =>
              \A i \in 1..n : Before(s[i], g)}

\* tail(): one row of the result
out_row(row) ==
  [fingerprint |-> row.fingerprint, level |-> row.level, count_15m |-> row.count_15m,
   last_seen_at |-> row.last_seen_at, report_path |-> row.report_path,
   incident_reset_applied |-> row.reset_applied,
   last_event |-> loaded(row.last_event_json)]

\* the arguments of a tail() call
TailArgs(lim, f, m) == [limit |-> lim, fingerprint |-> f, min_level |-> m]

\* tail(): the select and the result list
Select(t, lim, f, m) ==
  /\ pc[t] = "select"
  /\ \E s \in Selected(TailArgs(lim, f, m)) :
       out' = [out EXCEPT ![t] = [i \in DOMAIN s |-> out_row(states[s[i]])]]
  /\ pc' = [pc EXCEPT ![t] = "tret"]
  /\ UNCHANGED <<env, clock, store, regLocals, tnow>>

\* tail(): return the list to the caller
TailReturn(t) ==
  /\ pc[t] = "tret"
  /\ pc' = [pc EXCEPT ![t] = "idle"]
  /\ tnow' = [tnow EXCEPT ![t] = 0]
  /\ out' = [out EXCEPT ![t] = <<>>]
  /\ UNCHANGED <<env, clock, store, regLocals>>

Next ==
  \/ Tick
  \/ \E t \in Threads, f \in Fingerprints : Begin(t, f)
  \/ \E t \in Threads : FetchPrev(t)
  \/ \E t \in Threads : Count(t)
  \/ \E t \in Threads : Report(t)
  \/ \E t \in Threads : Insert(t)
  \/ \E t \in Threads : Upsert(t)
  \/ \E t \in Threads : Return(t)
  \/ \E t \in Threads : Sweep(t)
  \/ \E t \in Threads, lim \in 1..MaxLimit, f \in signatures \cup {""}, m \in 0..3 :
       Select(t, lim, f, m)
  \/ \E t \in Threads : TailReturn(t)

Spec == Init /\ [][Next]_vars
SpecSeq == InitSeq /\ [][Next]_vars
SpecRapid == InitRapid /\ [][Next]_vars
\* the steps of Next, the lists read with the default filter (no fingerprint,
\* min_level 0) and the largest limit
NextTail ==
  \/ Tick
  \/ \E t \in Threads, f \in Fingerprints : Begin(t, f)
  \/ \E t \in Threads : FetchPrev(t)
  \/ \E t \in Threads : Count(t)
  \/ \E t \in Threads : Report(t)
  \/ \E t \in Threads : Insert(t)
  \/ \E t \in Threads : Upsert(t)
  \/ \E t \in Threads : Return(t)
  \/ \E t \in Threads : Sweep(t)
  \/ \E t \in Threads : Select(t, MaxLimit, "", 0)
  \/ \E t \in Threads : TailReturn(t)

SpecTail == InitTail /\ [][NextTail]_vars

\* ----------------------------------------------------- redaction of a call
\* the strings, keys and values the explored contexts are made of
Texts == {<<"ok">>, <<"Bearer", "abcd">>, <<"sk-AAAAAAAA">>}
Keys == <<<<"password">>, <<"API", "_", "KEY">>, <<"auth", "Token">>, <<"safe">>>>
Scalars == {None, IntVal(7), Obj(<<"ok">>)} \cup {Str(t) : t \in Texts}
SubMaps == {Dict(<<Keys[k]>>, <<v>>) : k \in DOMAIN Keys, v \in {Str(<<"ok">>), IntVal(7)}}
Lists == {List(<<Str(<<"ok">>)>>), Tuple(<<IntVal(7)>>)}
Values == Scalars \cup SubMaps \cup Lists

\* a chain of n nested one-key mappings around a string
RECURSIVE Nest(_)
Nest(n) == IF n = 0 THEN Str(<<"ok">>) ELSE Dict(<<<<"nested">>>>, <<Nest(n - 1)>>)

\* a mapping d with d["self"] = d and d["items"] = [d], followed through n
\* references
RECURSIVE Cyclic(_)
Cyclic(n) ==
  IF n = 0 THEN Dict(<<>>, <<>>)
  ELSE Dict(<<<<"self">>, <<"items">>>>, <<Cyclic(n - 1), List(<<Cyclic(n - 1)>>)>>)

\* the members of a set of numbers in ascending order
RECURSIVE Ascending(_)
Ascending(S) ==
  IF S = {} THEN <<>>
  ELSE LET m == CHOOSE x \in S : \A y \in S : x <= y
       IN  <<m>> \o Ascending(S \ {m})

\* the choices of up to MaxEntries of the keys
KeyChoices == {T \in SUBSET DOMAIN Keys : Cardinality(T) <= MaxEntries}

\* the mapping that holds the chosen keys, in the order of Keys, with the
\* values val gives them
ContextOf(S, val) ==
  LET ks == Ascending(S)
  IN  Dict([i \in DOMAIN ks |-> Keys[ks[i]]], [i \in DOMAIN ks |-> val[ks[i]]])

\* a register() call arrives with a context: a mapping of up to MaxEntries
\* keys, no context, a mapping nested up to or beyond the depth cap, or a
\* mapping that contains itself
InitRedact ==
  /\ InitStore({DefaultArgs}, {}, {}, {})
  /\ \/ context \in {None, Nest(DepthCap), Nest(DepthCap + 1), Nest(DepthCap + 2),
                      Cyclic(DepthCap + 2)}
     \/ \E S \in KeyChoices : \E val \in [S -> Values] : context = ContextOf(S, val)
  /\ safe_context_raw = NoValue
  /\ log = <<>>
  /\ NoTexts
  /\ NoJobs
  /\ Unlocked
  /\ NoVideos
  /\ NoCut

\* register(): safe_context_raw = redact_data(context or {}, "context")
Redact ==
  /\ safe_context_raw = NoValue
  /\ safe_context_raw' =
       redact_data(IF context = None \/ context = Dict(<<>>, <<>>) THEN Dict(<<>>, <<>>) ELSE context,
                   <<"context">>, 0)
  /\ UNCHANGED <<ctor_args, cfg, callers, operators, signatures, context, log, texts, clock,
                 store, pc, regLocals, tailLocals, bookkeeping, media, db_lock>>

NextRedact == Redact

SpecRedact == InitRedact /\ [][NextRedact]_vars

\* ------------------------------------------------- the texts of a call
\* value is falsy in `value or default`
Falsy(v) == v = None \/ v = Str(<<>>)

\* clip_text: str(value if value is not None else "")[:limit]
clip_text(value, limit) ==
  Str(Clip(IF value.kind = "none" THEN <<>>
           ELSE IF value.kind \in {"int", "bool"} THEN <<ToString(value.num)>>
           ELSE value.text, limit))

\* context.get(key)
Get(d, key) ==
  IF \E i \in DOMAIN d.keys : d.keys[i] = key
  THEN d.items[CHOOSE i \in DOMAIN d.keys : d.keys[i] = key]
  ELSE None

\* the keys _primary_context looks for first, in its order
PriorityKeys ==
  <<<<"stage">>, <<"event">>, <<"path">>, <<"route">>, <<"platform">>, <<"source">>,
    <<"reason">>, <<"code">>, <<"error_code">>, <<"request_id">>, <<"run_id">>, <<"job_id">>,
    <<"video_id">>>>

\* the keys of the explored contexts in the order sorted() gives strings
KeyOrder == <<<<"nonce">>, <<"reason">>, <<"request_id">>, <<"stage">>>>

\* sorted(context.keys())
SortedKeys(d) ==
  LET Held(k) == \E i \in DOMAIN d.keys : d.keys[i] = k
  IN  SelectSeq(KeyOrder, Held)

\* _primary_context: `value in (None, "", [], {})`
Skipped(v) == v \in {None, Str(<<>>), List(<<>>), Dict(<<>>, <<>>)}

\* _primary_context: the entries of the keys ks whose value is not skipped
Picked(d, ks) ==
  LET Kept(k) == ~Skipped(Get(d, k))
      kept == SelectSeq(ks, Kept)
  IN  Dict(kept, [i \in DOMAIN kept |-> Get(d, kept[i])])

\* IncidentManager._primary_context
primary_context(context_) ==
  LET picked == Picked(context_, PriorityKeys)
  IN  IF picked.keys # <<>> THEN picked
      ELSE Picked(context_, Clip(SortedKeys(context_), 8))

\* json.dumps(primary, sort_keys=True): the text of the mapping with its keys
\* in sorted order
dumps_sorted(d) == json_dumps(Picked(d, SortedKeys(d)))

\* hashlib.sha256(raw).hexdigest()[:24], taken as a one-to-one name of the
\* hashed text (no two explored texts collide)
sha256_24(raw) == [digest_of |-> raw]

\* IncidentManager.fingerprint: the three capped texts and the primary
\* context joined with "|" and hashed
fingerprint(error_type, message, stack, context_) ==
  sha256_24([text |-> clip_text(error_type, 120).text \o <<"|">> \o
                      clip_text(message, 1600).text \o <<"|">> \o
                      clip_text(stack, 6000).text \o <<"|">>,
             json |-> dumps_sorted(primary_context(context_))])

\* the arguments of a register() call
Call(error_type, message, stack, context_, stage, event, trace_id, request_id, run_id) ==
  [error_type |-> error_type, message |-> message, stack |-> stack, context |-> context_,
   stage |-> stage, event |-> event, trace_id |-> trace_id, request_id |-> request_id,
   run_id |-> run_id]

\* register(): the safe_* values and the fingerprint
sanitized(c) ==
  LET raw == redact_data(IF c.context = None \/ c.context = Dict(<<>>, <<>>)
                         THEN Dict(<<>>, <<>>) ELSE c.context, <<"context">>, 0)
      safe_context == IF raw.kind = "dict" THEN raw ELSE Dict(<<<<"context">>>>, <<raw>>)
      safe_type == clip_text(redact_data(c.error_type, <<"error_type">>, 0), 120)
      safe_message == clip_text(redact_data(c.message, <<"message">>, 0), 3000)
      safe_stack == clip_text(redact_data(c.stack, <<"stack">>, 0), 60000)
      req == clip_text(IF Falsy(c.request_id) THEN Str(<<>>) ELSE c.request_id, 160)
      run == clip_text(IF Falsy(c.run_id) THEN Str(<<>>) ELSE c.run_id, 160)
  IN  [safe_context |-> safe_context,
       safe_type |-> safe_type,
       safe_message |-> safe_message,
       safe_stack |-> safe_stack,
       safe_trace |-> clip_text(IF Falsy(c.trace_id) THEN Str(<<"-">>) ELSE c.trace_id, 160),
       safe_request |-> IF Falsy(req) THEN None ELSE req,
       safe_run |-> IF Falsy(run) THEN None ELSE run,
       safe_stage |-> clip_text(c.stage, 120),
       safe_event |-> clip_text(c.event, 160),
       fingerprint |-> fingerprint(safe_type, safe_message, safe_stack, safe_context)]

\* register(): the text values bound to the insert into incident_events and
\* to the upsert of incident_states
bound(s) ==
  [event |-> [fingerprint |-> s.fingerprint, error_type |-> s.safe_type,
              message |-> s.safe_message, stack |-> s.safe_stack,
              context_json |-> json_dumps(s.safe_context), stage |-> s.safe_stage,
              event |-> s.safe_event, trace_id |-> s.safe_trace,
              request_id |-> s.safe_request, run_id |-> s.safe_run],
   state |-> [fingerprint |-> s.fingerprint,
              last_event_json |->
                json_dumps([stage |-> s.safe_stage, event |-> s.safe_event,
                            error_type |-> s.safe_type,
                            message |-> Str(Clip(s.safe_message.text, 1200))]),
              last_trace_id |-> s.safe_trace, last_request_id |-> s.safe_request,
              last_run_id |-> s.safe_run]]

\* the values the explored calls give each argument
TypeArgs == {None, Str(<<>>), Str(<<"RuntimeError">>)}
MessageArgs == {None, Str(<<"boom">>), Str(<<"Bearer", "abcd">>)}
StageArgs == {Str(<<"upload">>), Str(<<"render">>)}
TraceArgs == {None, Str(<<"sk-AAAAAAAA">>)}

\* the keys of the explored contexts and the values each may have (NoValue:
\* the key is not in the context)
CallKeys == <<<<"stage">>, <<"reason">>, <<"request_id">>, <<"nonce">>>>
CallValues ==
  <<{Str(<<>>), Str(<<"upload">>), Str(<<"render">>)},
    {NoValue, Str(<<"timeout">>)},
    {NoValue, Str(<<"r1">>), Str(<<"r2">>)},
    {Str(<<"n1">>), Str(<<"n2">>)}>>

\* the context that holds the keys val gives a value, in the order of CallKeys
CallContext(val) ==
  LET ks == Ascending({i \in DOMAIN CallKeys : val[i] # NoValue})
  IN  Dict([i \in DOMAIN ks |-> CallKeys[ks[i]]], [i \in DOMAIN ks |-> val[ks[i]]])

\* the explored contexts
CallContexts ==
  {CallContext(val) : val \in {v \in [DOMAIN CallKeys -> UNION {CallValues[i] : i \in DOMAIN CallValues}] :
                                 \A i \in DOMAIN CallKeys : v[i] \in CallValues[i]}}

\* a call of the explored shape: a stack and an event name, no request or run id
PlainCall(error_type, message, context_, stage, trace_id) ==
  Call(error_type, message, Str(<<"Traceback">>), context_, stage, Str(<<"failed">>), trace_id, None,
       None)

\* Either one call with any of the explored types, messages and trace ids, or
\* two calls of the same type, message and stack, each with its own context
\* and stage.
InitCall ==
  /\ InitStore({DefaultArgs}, {}, {}, {})
  /\ context = NoValue
  /\ safe_context_raw = NoValue
  /\ log = <<>>
  /\ safe = <<>>
  /\ persisted = <<>>
  /\ NoJobs
  /\ Unlocked
  /\ NoVideos
  /\ NoCut
  /\ \/ \E ty \in TypeArgs, msg \in MessageArgs, c \in CallContexts, st \in StageArgs,
           tr \in TraceArgs :
          calls = <<PlainCall(ty, msg, c, st, tr)>>
     \/ \E c1 \in CallContexts, c2 \in CallContexts, st1 \in StageArgs, st2 \in StageArgs :
          calls = <<PlainCall(Str(<<"RuntimeError">>), Str(<<"boom">>), c1, st1, None),
                    PlainCall(Str(<<"RuntimeError">>), Str(<<"boom">>), c2, st2, None)>>

\* register(): redact and cap the arguments of the next call and compute its
\* fingerprint
Sanitize ==
  /\ Len(safe) = Len(persisted)
  /\ Len(safe) < Len(calls)
  /\ safe' = Append(safe, sanitized(calls[Len(safe) + 1]))
  /\ UNCHANGED <<ctor_args, cfg, callers, operators, signatures, redaction, log, calls,
                 persisted, clock, store, pc, regLocals, tailLocals, bookkeeping, media, db_lock>>

\* register(): the insert of the event and the upsert of the state
Persist ==
  /\ Len(persisted) < Len(safe)
  /\ persisted' = Append(persisted, bound(safe[Len(persisted) + 1]))
  /\ UNCHANGED <<ctor_args, cfg, callers, operators, signatures, redaction, log, calls, safe,
                 clock, store, pc, regLocals, tailLocals, bookkeeping, media, db_lock>>

NextCall == Sanitize \/ Persist

SpecCall == InitCall /\ [][NextCall]_vars

\* ------------------------------------------------- producers and failures
\* The producer that reports a failure signature: fa is a server-side failure
\* reported through log_error, fb a client event reported through the
\* client-events handler.
ProducerOf(f) == IF f = "fa" THEN "log_error" ELSE "client_events"

\* the incident fields a producer starts from, before it calls register()
DefaultMeta ==
  [incident_fingerprint |-> "", incident_level |-> 0, incident_count_15m |-> 0,
   incident_reset_applied |-> FALSE]

\* register(): the incident fields of the mapping it returns
ReturnedMeta(t) ==
  [incident_fingerprint |-> fp[t], incident_level |-> level[t],
   incident_count_15m |-> count_15m[t], incident_reset_applied |-> reset_applied[t]]

\* the log entry a producer writes: who wrote it and the incident fields
LogEntry(f, meta) == [producer |-> ProducerOf(f), signature |-> f, meta |-> meta]

\* the register() locals of thread t once its call is over
Cleared(t) ==
  /\ fp' = [fp EXCEPT ![t] = ""]
  /\ now' = [now EXCEPT ![t] = 0]
  /\ prev' = [prev EXCEPT ![t] = NoRow]
  /\ reset_applied' = [reset_applied EXCEPT ![t] = FALSE]
  /\ count_15m' = [count_15m EXCEPT ![t] = 0]
  /\ level' = [level EXCEPT ![t] = 0]
  /\ report_path' = [report_path EXCEPT ![t] = NullPath]

unlogged == <<ctor_args, cfg, callers, operators, signatures, redaction, texts, bookkeeping, media, db_lock>>

\* a producer calls register(), up to MaxCalls times
Produce(t, f) ==
  /\ Len(log) < MaxCalls
  /\ Begin(t, f)

\* _write_report: path.write_text raises (disk full, directory removed); the
\* exception leaves register() before the insert and the upsert
ReportFails(t) ==
  /\ pc[t] = "report"
  /\ should_report(t)
  /\ pc' = [pc EXCEPT ![t] = "raised"]
  /\ UNCHANGED <<env, clock, store, regLocals, tailLocals>>

\* a Db statement of register() raises (store unavailable, write error)
StoreFails(t) ==
  /\ pc[t] \in {"fetch_prev", "count", "insert", "upsert"}
  /\ pc' = [pc EXCEPT ![t] = "raised"]
  /\ UNCHANGED <<env, clock, store, regLocals, tailLocals>>

\* register() returned: the producer writes its log entry with the incident
\* fields of the result
LogReturn(t) ==
  /\ pc[t] = "ret"
  /\ log' = Append(log, LogEntry(fp[t], ReturnedMeta(t)))
  /\ pc' = [pc EXCEPT ![t] = "idle"]
  /\ Cleared(t)
  /\ UNCHANGED <<unlogged, clock, store, tailLocals>>

\* LogRaise with the exception leaving the producer before it logs
LogRaise_propagate(t) ==
  /\ pc[t] = "raised"
  /\ log' = log
  /\ pc' = [pc EXCEPT ![t] = "idle"]
  /\ Cleared(t)
  /\ UNCHANGED <<unlogged, clock, store, tailLocals>>

\* register() raised: contextlib.suppress drops the exception and the
\* producer writes its log entry with the incident fields it started from
LogRaise(t) ==
  /\ pc[t] = "raised"
  /\ log' = Append(log, LogEntry(fp[t], DefaultMeta))
  /\ pc' = [pc EXCEPT ![t] = "idle"]
  /\ Cleared(t)
  /\ UNCHANGED <<unlogged, clock, store, tailLocals>>

\* the text of a row's last_event_json is cut short (a write that did not
\* complete, an edit of the database file)
Corrupt(f) ==
  /\ states[f] # NoRow
  /\ states[f].last_event_json.closed
  /\ states' = [states EXCEPT ![f].last_event_json.closed = FALSE]
  /\ UNCHANGED <<env, clock, events, rowids, writes, pc, regLocals, tailLocals>>

\* one thread serves both producers and the incident list, under thresholds
\* that put the first event of a signature at level 2
InitFault == InitWith({SteepArgs}, {"t1"}, {"t1"}, Fingerprints)

NextFault ==
  \/ Tick
  \/ \E t \in Threads, f \in Fingerprints : Produce(t, f)
  \/ \E t \in Threads : FetchPrev(t)
  \/ \E t \in Threads : Count(t)
  \/ \E t \in Threads : Report(t)
  \/ \E t \in Threads : ReportFails(t)
  \/ \E t \in Threads : Insert(t)
  \/ \E t \in Threads : Upsert(t)
  \/ \E t \in Threads : StoreFails(t)
  \/ \E t \in Threads : LogReturn(t)
  \/ \E t \in Threads : LogRaise(t)
  \/ \E f \in Fingerprints : Corrupt(f)
  \/ \E t \in Threads : Sweep(t)
  \/ \E t \in Threads, lim \in 1..MaxLimit, f \in signatures \cup {""}, m \in 0..3 :
       Select(t, lim, f, m)
  \/ \E t \in Threads : TailReturn(t)

SpecFault == InitFault /\ [][NextFault]_vars

\* ------------------------------------------------------------ construction
\* the configuration of a manager that has not been constructed
NoConfig ==
  [window_minutes |-> 0, reset_minutes |-> 0, level_l1 |-> 0, level_l2 |-> 0, level_l3 |-> 0]

\* the values explored for each constructor argument
ArgValues == (0 - 1)..MaxArg

\* a process about to construct its IncidentManager
InitConfig ==
  /\ ctor_args \in [window_minutes : ArgValues, reset_minutes : ArgValues, level_l1 : ArgValues,
                    level_l2 : ArgValues, level_l3 : ArgValues]
  /\ cfg = NoConfig
  /\ clock = 0
  /\ InitTables({}, {}, {})
  /\ Idle
  /\ NoJobs
  /\ Unlocked
  /\ NoVideos
  /\ NoCut

\* IncidentManager.__init__
Construct ==
  /\ cfg = NoConfig
  /\ cfg' = EffectiveConfig(ctor_args)
  /\ UNCHANGED <<ctor_args, callers, operators, signatures, redaction, log, texts, clock,
                 store, pc, regLocals, tailLocals, bookkeeping, media, db_lock>>

NextConfig == Construct

SpecConfig == InitConfig /\ [][NextConfig]_vars

\* ------------------------------------------------------ job bookkeeping
\* VIDEO_MAX_WORKERS, the size of the executor's thread pool
MAX_WORKERS == 2

\* everything but the job bookkeeping and the application log
unsubmitted ==
  <<ctor_args, cfg, callers, operators, signatures, redaction, texts, media, db_lock, clock, store, pc,
    regLocals, tailLocals>>

\* the jobs whose wrapped() occupies a pool thread
Busy == {j \in JobIds : worker[j] \in {"start", "fn", "ok", "except", "log", "finally"}}

\* create_job: the jobs row, status queued
create_job(j) ==
  /\ submitter[j] = "idle"
  /\ jobs' = [jobs EXCEPT ![j] = "queued"]
  /\ submitter' = [submitter EXCEPT ![j] = "created"]
  /\ UNCHANGED <<unsubmitted, log, active_futures, worker>>

\* submit_async_job: fut = executor.submit(wrapped)
executor_submit(j) ==
  /\ submitter[j] = "created"
  /\ worker' = [worker EXCEPT ![j] = "pending"]
  /\ submitter' = [submitter EXCEPT ![j] = "submitted"]
  /\ UNCHANGED <<unsubmitted, log, jobs, active_futures>>

\* submit_async_job: with active_lock: active_futures[job_id] = fut
store_future(j) ==
  /\ submitter[j] = "submitted"
  /\ active_futures' = active_futures \cup {j}
  /\ submitter' = [submitter EXCEPT ![j] = "done"]
  /\ UNCHANGED <<unsubmitted, log, jobs, worker>>

\* the executor starts wrapped() on a free pool thread
pool_start(j) ==
  /\ worker[j] = "pending"
  /\ Cardinality(Busy) < MAX_WORKERS
  /\ worker' = [worker EXCEPT ![j] = "start"]
  /\ UNCHANGED <<unsubmitted, log, jobs, active_futures, submitter>>

\* wrapped(): update_job(job_id, "running")
mark_running(j) ==
  /\ worker[j] = "start"
  /\ jobs' = [jobs EXCEPT ![j] = "running"]
  /\ worker' = [worker EXCEPT ![j] = "fn"]
  /\ UNCHANGED <<unsubmitted, log, active_futures, submitter>>

\* wrapped(): result = fn(), which returns or raises
run_fn(j) ==
  /\ worker[j] = "fn"
  /\ \E raised \in BOOLEAN :
       worker' = [worker EXCEPT ![j] = IF raised THEN "except" ELSE "ok"]
  /\ UNCHANGED <<unsubmitted, log, jobs, active_futures, submitter>>

\* wrapped(): update_job(job_id, "succeeded", result=result)
mark_succeeded(j) ==
  /\ worker[j] = "ok"
  /\ jobs' = [jobs EXCEPT ![j] = "succeeded"]
  /\ worker' = [worker EXCEPT ![j] = "finally"]
  /\ UNCHANGED <<unsubmitted, log, active_futures, submitter>>

\* wrapped(): update_job(job_id, "failed", error=str(error))
mark_failed(j) ==
  /\ worker[j] = "except"
  /\ jobs' = [jobs EXCEPT ![j] = "failed"]
  /\ worker' = [worker EXCEPT ![j] = "log"]
  /\ UNCHANGED <<unsubmitted, log, active_futures, submitter>>

\* wrapped(): log_error(trace_id, "jobs", "job_failed", error, job_id=job_id);
\* the entry it writes to the application log is kept, the register() it
\* makes is followed in SpecFault
log_job_failed(j) ==
  /\ worker[j] = "log"
  /\ log' = Append(log, [stage |-> "jobs", event |-> "job_failed", job_id |-> j])
  /\ worker' = [worker EXCEPT ![j] = "finally"]
  /\ UNCHANGED <<unsubmitted, jobs, active_futures, submitter>>

\* wrapped(): finally: with active_lock: active_futures.pop(job_id, None)
pop_future(j) ==
  /\ worker[j] = "finally"
  /\ active_futures' = active_futures \ {j}
  /\ worker' = [worker EXCEPT ![j] = "done"]
  /\ UNCHANGED <<unsubmitted, log, jobs, submitter>>

\* request handlers create and submit jobs while the pool runs them
InitJobs ==
  /\ InitStore({DefaultArgs}, {}, {}, {})
  /\ Idle
  /\ NoJobs
  /\ Unlocked
  /\ NoVideos
  /\ NoCut

NextJobs ==
  \/ \E j \in JobIds : create_job(j)
  \/ \E j \in JobIds : executor_submit(j)
  \/ \E j \in JobIds : store_future(j)
  \/ \E j \in JobIds : pool_start(j)
  \/ \E j \in JobIds : mark_running(j)
  \/ \E j \in JobIds : run_fn(j)
  \/ \E j \in JobIds : mark_succeeded(j)
  \/ \E j \in JobIds : mark_failed(j)
  \/ \E j \in JobIds : log_job_failed(j)
  \/ \E j \in JobIds : pop_future(j)

SpecJobs == InitJobs /\ [][NextJobs]_vars

\* ------------------------------------------------------ video pipelines
\* everything but the videos table, the pipeline runs and the application log
unprocessed ==
  <<ctor_args, cfg, callers, operators, signatures, redaction, texts, bookkeeping, cutting, db_lock, clock,
    store, pc, regLocals, tailLocals>>

\* the run of video v moves to position a
Moved(v, a) == pipeline' = [pipeline EXCEPT ![v].at = a]

\* a step of the run of video v raises inside the try block
Raised(v, step) ==
  pipeline' = [pipeline EXCEPT ![v].at = "except", ![v].raised = @ \cup {step}]

\* upsert_video_status(video_id, status, ...)
upsert_video_status(v, status) == videos' = [videos EXCEPT ![v] = status]

\* create_video_record, and the pipeline the request handler schedules for it
create_video_record(v, kind, subs) ==
  /\ videos[v] = ""
  /\ upsert_video_status(v, "QUEUED")
  /\ pipeline' = [pipeline EXCEPT ![v] = [kind |-> kind, at |-> "begin",
                                          include_subtitles |-> subs,
                                          subtitles_status |-> "", raised |-> {}]]
  /\ UNCHANGED <<unprocessed, log>>

\* process_video_pipeline: upsert_video_status(video_id, "PROCESSING", 0.1)
\* process_manual_source_pipeline: upsert_video_status(video_id, "PROCESSING", 0.2)
begin_processing(v) ==
  /\ pipeline[v].at = "begin"
  /\ upsert_video_status(v, "PROCESSING")
  /\ Moved(v, IF pipeline[v].kind = "video" THEN "auto_cut" ELSE "deliver")
  /\ UNCHANGED <<unprocessed, log>>

\* process_video_pipeline: auto_cut_video, then progress 0.45
auto_cut_video(v) ==
  /\ pipeline[v].at = "auto_cut"
  /\ \/ /\ upsert_video_status(v, "PROCESSING")
        /\ pipeline' = [pipeline EXCEPT
                          ![v].at = IF pipeline[v].include_subtitles THEN "subtitles"
                                    ELSE "progress",
                          ![v].subtitles_status = "disabled"]
     \/ /\ Raised(v, "auto_cut")
        /\ UNCHANGED videos
  /\ UNCHANGED <<unprocessed, log>>

\* process_video_pipeline: whisper_transcribe_to_srt and burn_subtitles inside
\* the inner try; a failure is logged and the run goes on without subtitles
subtitles(v) ==
  /\ pipeline[v].at = "subtitles"
  /\ \/ /\ pipeline' = [pipeline EXCEPT ![v].at = "progress",
                                        ![v].subtitles_status = "applied"]
        /\ log' = log
     \/ /\ pipeline' = [pipeline EXCEPT ![v].at = "progress",
                                        ![v].subtitles_status = "failed",
                                        ![v].raised = @ \cup {"subtitles"}]
        /\ log' = Append(log, [stage |-> "subtitles", event |-> "subtitles_failed_fallback",
                               video_id |-> v])
  /\ UNCHANGED <<unprocessed, videos>>

\* process_video_pipeline: progress 0.8
progress(v) ==
  /\ pipeline[v].at = "progress"
  /\ upsert_video_status(v, "PROCESSING")
  /\ Moved(v, "deliver")
  /\ UNCHANGED <<unprocessed, log>>

\* deliver_social
deliver_social(v) ==
  /\ pipeline[v].at = "deliver"
  /\ \/ Moved(v, "complete")
     \/ Raised(v, "deliver")
  /\ UNCHANGED <<unprocessed, videos, log>>

\* upsert_video_status(video_id, "COMPLETE", 1.0, completed=True, ...)
complete(v) ==
  /\ pipeline[v].at = "complete"
  /\ upsert_video_status(v, "COMPLETE")
  /\ Moved(v, "log_complete")
  /\ UNCHANGED <<unprocessed, log>>

\* log_event(..., output_hash=short_hash(final_out), ...), still inside the
\* try block: reading the output file or writing the log may raise
log_complete(v) ==
  /\ pipeline[v].at = "log_complete"
  /\ \/ /\ Moved(v, "done")
        /\ log' = Append(log, [stage |-> pipeline[v].kind, event |-> "complete", video_id |-> v])
     \/ /\ Raised(v, "log_event")
        /\ log' = log
  /\ UNCHANGED <<unprocessed, videos>>

\* except Exception: upsert_video_status(video_id, "FAILED", ...) and log_error
failed(v) ==
  /\ pipeline[v].at = "except"
  /\ upsert_video_status(v, "FAILED")
  /\ Moved(v, "done")
  /\ log' = Append(log, [stage |-> pipeline[v].kind, event |-> "failed", video_id |-> v])
  /\ UNCHANGED unprocessed

\* uploads create video records and the background tasks run their pipelines
InitVideo ==
  /\ InitStore({DefaultArgs}, {}, {}, {})
  /\ Idle
  /\ NoJobs
  /\ Unlocked
  /\ NoVideos
  /\ NoCut

NextVideo ==
  \/ \E v \in VideoIds, subs \in BOOLEAN : create_video_record(v, "video", subs)
  \/ \E v \in VideoIds : create_video_record(v, "manual", FALSE)
  \/ \E v \in VideoIds : begin_processing(v)
  \/ \E v \in VideoIds : auto_cut_video(v)
  \/ \E v \in VideoIds : subtitles(v)
  \/ \E v \in VideoIds : progress(v)
  \/ \E v \in VideoIds : deliver_social(v)
  \/ \E v \in VideoIds : complete(v)
  \/ \E v \in VideoIds : log_complete(v)
  \/ \E v \in VideoIds : failed(v)

SpecVideo == InitVideo /\ [][NextVideo]_vars

\* ------------------------------------------------------ silence parsing
\* times and durations, in a fixed unit
Times == 0..3

\* a line of the detector output: a silence_start or a silence_end marker
\* with its time, or a line with neither
Marker(kind, at) == [kind |-> kind, at |-> at]
Lines == {Marker(k, x) : k \in {"silence_start", "silence_end"}, x \in Times} \cup {Marker("", 0)}

\* the larger of two numbers, as max(a, b)
max(a, b) == IF b > a THEN b ELSE a

\* parse_silences: the times of the markers of one kind, in line order
Marked(stderr, kind) ==
  LET hits == SelectSeq(stderr, LAMBDA line : line.kind = kind)
  IN  [i \in DOMAIN hits |-> hits[i].at]

\* parse_silences: the (start, end) pairs with end > start; a start without
\* an end marker ends at total_duration
silences(d) ==
  LET silence_starts == Marked(d.stderr, "silence_start")
      silence_ends == Marked(d.stderr, "silence_end")
      pairs == [i \in DOMAIN silence_starts |->
                  <<silence_starts[i],
                    IF i <= Len(silence_ends) THEN silence_ends[i] ELSE d.total_duration>>]
  IN  SelectSeq(pairs, LAMBDA p : p[2] > p[1])

\* parse_silences: the loop over the silences, from silence i on, with the
\* cursor and the segments kept so far
RECURSIVE cut(_, _, _, _)
cut(d, i, cursor, segs) ==
  LET sil == silences(d)
  IN  IF i > Len(sil) THEN [cursor |-> cursor, segments |-> segs]
      ELSE LET seg_st == max(0, cursor - d.padding_before)
               seg_en == max(seg_st, sil[i][1] + d.padding_after)
           IN  cut(d, i + 1, sil[i][2],
                   IF seg_en - seg_st >= d.min_segment_duration
                   THEN Append(segs, <<seg_st, seg_en>>) ELSE segs)

\* parse_silences: the segments kept by the loop and by the step after it
kept(d) ==
  LET after == cut(d, 1, 0, <<>>)
      seg_st == max(0, after.cursor - d.padding_before)
      seg_en == d.total_duration
  IN  IF after.cursor < d.total_duration /\ seg_en - seg_st >= d.min_segment_duration
      THEN Append(after.segments, <<seg_st, seg_en>>)
      ELSE after.segments

\* parse_silences without the fallback to the whole duration
parse_silences_no_fallback(d) == kept(d)

\* parse_silences
parse_silences(d) ==
  IF kept(d) = <<>> THEN <<<<0, d.total_duration>>>> ELSE kept(d)

\* a detector output of up to MaxLines lines and the arguments auto_cut_video
\* passes with it
InitSilence ==
  /\ InitStore({DefaultArgs}, {}, {}, {})
  /\ Idle
  /\ NoJobs
  /\ Unlocked
  /\ NoVideos
  /\ segments = Unparsed
  /\ \E n \in 0..MaxLines : \E err \in [1..n -> Lines] :
       \E total \in Times, before \in (0 - 1)..1, after \in 0..1, least \in {0, 2} :
         detected = [stderr |-> err, total_duration |-> total, padding_before |-> before,
                     padding_after |-> after, min_segment_duration |-> least]

\* auto_cut_video: segments = parse_silences(proc.stderr, total_duration, ...)
Parse ==
  /\ ~segments.parsed
  /\ segments' = [parsed |-> TRUE, list |-> parse_silences(detected)]
  /\ UNCHANGED <<ctor_args, cfg, callers, operators, signatures, redaction, log, texts,
                 bookkeeping, videos, pipeline, detected, db_lock, clock, store, pc,
                 regLocals, tailLocals>>

NextSilence == Parse

SpecSilence == InitSilence /\ [][NextSilence]_vars

\* ------------------------------------------------------------ the Db lock
\* Db.execute, Db.fetchone and Db.fetchall run one statement each inside
\* `with self.lock`: the lock is taken before the statement and given back
\* when the block is left, whether the statement returned or raised.
\* threading.Lock.acquire() waits without a timeout.

\* the jobs whose bookkeeping shares the store with the engine here
LiveJobs == {1}

\* everything but the lock
unheld ==
  <<ctor_args, cfg, callers, operators, signatures, redaction, log, texts, bookkeeping, media,
    clock, store, pc, regLocals, tailLocals>>

\* the statement a job's thread is at: the handler's until the job is
\* submitted, the pool thread's afterwards
JobAt(j) == IF worker[j] = "none" THEN submitter[j] ELSE worker[j]

\* register() and tail(): the next thing thread t does is a Db statement
AtStatement(t) == pc[t] \in {"fetch_prev", "count", "insert", "upsert", "select"}

\* create_job and update_job: the next thing the job's thread does is a Db statement
JobAtStatement(j) == JobAt(j) \in {"start", "ok", "except"}

\* with self.lock: entered by thread t for the statement it is at
acquire(t) ==
  /\ db_lock = Free
  /\ AtStatement(t)
  /\ db_lock' = [thread |-> t, job |-> 0, at |-> pc[t]]
  /\ UNCHANGED unheld

\* tail() is called: _apply_stale_resets enters with self.lock for the sweep
call_tail(t) ==
  /\ db_lock = Free
  /\ t \in operators
  /\ pc[t] = "idle"
  /\ db_lock' = [thread |-> t, job |-> 0, at |-> "idle"]
  /\ UNCHANGED unheld

\* the with block leaving without giving the lock back after a statement raised
release_unless_raised(t) ==
  /\ db_lock.thread = t
  /\ db_lock.at # pc[t]
  /\ pc[t] # "raised"
  /\ db_lock' = Free
  /\ UNCHANGED unheld

\* with self.lock: left by thread t, the statement having returned or raised
release(t) ==
  /\ db_lock.thread = t
  /\ db_lock.at # pc[t]
  /\ db_lock' = Free
  /\ UNCHANGED unheld

\* thread t holds the lock for the statement it is at
Holding(t) == db_lock.thread = t /\ db_lock.at = pc[t]

\* with self.lock: entered by the thread of job j
acquire_job(j) ==
  /\ db_lock = Free
  /\ JobAtStatement(j)
  /\ db_lock' = [thread |-> "", job |-> j, at |-> JobAt(j)]
  /\ UNCHANGED unheld

\* create_job is called: db.execute enters with self.lock for the insert
call_create_job(j) ==
  /\ db_lock = Free
  /\ JobAt(j) = "idle"
  /\ db_lock' = [thread |-> "", job |-> j, at |-> "idle"]
  /\ UNCHANGED unheld

\* with self.lock: left by the thread of job j
release_job(j) ==
  /\ db_lock.job = j
  /\ db_lock.at # JobAt(j)
  /\ db_lock' = Free
  /\ UNCHANGED unheld

\* the thread of job j holds the lock for the statement it is at
JobHolding(j) == db_lock.job = j /\ db_lock.at = JobAt(j)

\* the statements of register() and tail(), each inside the lock
statement(t) ==
  /\ Holding(t)
  /\ \/ FetchPrev(t)
     \/ Count(t)
     \/ Insert(t)
     \/ Upsert(t)
     \/ StoreFails(t)
     \/ Sweep(t)
     \/ Select(t, MaxLimit, "", 0)

\* the steps of register(), tail() and the producer outside the lock
between(t) ==
  /\ db_lock.thread # t
  /\ \/ Report(t)
     \/ ReportFails(t)
     \/ LogReturn(t)
     \/ LogRaise(t)
     \/ TailReturn(t)

\* the entries of the application log that producers of incidents wrote
Produced == {i \in DOMAIN log : "producer" \in DOMAIN log[i]}

\* a producer calls register()
call_register(t, f) ==
  /\ db_lock.thread # t
  /\ Cardinality(Produced) < MaxLiveCalls
  /\ Begin(t, f)

\* the statements of create_job and update_job, each inside the lock
job_statement(j) ==
  /\ JobHolding(j)
  /\ \/ create_job(j)
     \/ mark_running(j)
     \/ mark_succeeded(j)
     \/ mark_failed(j)

\* the steps of submit_async_job and wrapped() outside the lock
job_between(j) ==
  /\ db_lock.job # j
  /\ \/ executor_submit(j)
     \/ store_future(j)
     \/ pool_start(j)
     \/ run_fn(j)
     \/ log_job_failed(j)
     \/ pop_future(j)

\* one thread registers a signature, another reads the incident list, and a
\* job is created, run and recorded, all over the one Db; the clock stands
\* still, the time of day having no part in who holds the lock
InitLive == InitWith({SteepArgs}, {"t1"}, {"t2"}, {"fa"})

NextLive ==
  \/ \E t \in Threads, f \in Fingerprints : call_register(t, f)
  \/ \E t \in Threads : call_tail(t)
  \/ \E t \in Threads : acquire(t)
  \/ \E t \in Threads : statement(t)
  \/ \E t \in Threads : release(t)
  \/ \E t \in Threads : between(t)
  \/ \E j \in LiveJobs : call_create_job(j)
  \/ \E j \in LiveJobs : acquire_job(j)
  \/ \E j \in LiveJobs : job_statement(j)
  \/ \E j \in LiveJobs : release_job(j)
  \/ \E j \in LiveJobs : job_between(j)

\* scheduling: a thread that can take a step outside the lock, run the
\* statement it holds the lock for, or give the lock back, does so; a thread
\* that waits for the lock gets it if the lock is free again and again.
\* Nothing makes a caller start a call.
Fairness ==
  /\ \A t \in Threads :
       /\ WF_vars(statement(t) \/ release(t) \/ between(t))
       /\ SF_vars(acquire(t))
  /\ \A j \in LiveJobs :
       /\ WF_vars(job_statement(j) \/ release_job(j) \/ job_between(j))
       /\ SF_vars(acquire_job(j))

SpecLive == InitLive /\ [][NextLive]_vars /\ Fairness

\* ------------------------------------------------------- claim vocabulary
\* the incident_events rows of fingerprint f
EventsOf(f) == {i \in DOMAIN events : events[i].fingerprint = f}

\* the time of incident_events row i
TimeOf(i) == parse_iso_utc(events[i].event_ts)

\* thread t has a register() result in hand
Returning(t) == pc[t] = "ret"

\* every event of the fingerprint of t's call lies in the window of that call
AllInWindow(t) ==
  \A i \in EventsOf(fp[t]) : TimeOf(i) >= now[t] - cfg.window_minutes

\* the levels the tests expect of 8 rapid registrations under 3/5/8
RapidLevels == <<0, 0, 1, 1, 2, 2, 2, 3>>

\* the thresholds are the defaults 3/5/8
DefaultThresholds ==
  /\ cfg.level_l1 = DefaultArgs.level_l1
  /\ cfg.level_l2 = DefaultArgs.level_l2
  /\ cfg.level_l3 = DefaultArgs.level_l3

\* C1: every register() returns level 3 if its count reaches L3, else 2 if it
\* reaches L2, else 1 if it reaches L1, else 0; and under the thresholds
\* 3/5/8 the n-th of up to 8 registrations of one signature that all lie in
\* one window returns the n-th of the levels 0,0,1,1,2,2,2,3.
C1_LevelOfCount ==
  \A t \in Threads : Returning(t) =>
    /\ (level[t] = 3) = (count_15m[t] >= cfg.level_l3)
    /\ (level[t] = 2) = (count_15m[t] >= cfg.level_l2 /\ count_15m[t] < cfg.level_l3)
    /\ (level[t] = 1) = (count_15m[t] >= cfg.level_l1 /\ count_15m[t] < cfg.level_l2)
    /\ (level[t] = 0) = (count_15m[t] < cfg.level_l1)
    /\ (DefaultThresholds /\ AllInWindow(t) /\ Cardinality(EventsOf(fp[t])) <= 8)
         => level[t] = RapidLevels[Cardinality(EventsOf(fp[t]))]

\* C1 witness: the 8th rapid registration returns level 3
C1_Witness ==
  \E t \in Threads :
    /\ Returning(t) /\ DefaultThresholds /\ AllInWindow(t)
    /\ Cardinality(EventsOf(fp[t])) = 8
    /\ level[t] = 3

\* C2: when N events of a fingerprint were registered one call after the
\* other and all N lie within the window of the N-th call, the N-th call
\* returns count N.
C2_CountIsN ==
  \A t \in Threads : (Returning(t) /\ AllInWindow(t)) =>
    count_15m[t] = Cardinality(EventsOf(fp[t]))

\* C2 witness: a third registration inside the window, one of them at the
\* window's edge, returns 3
C2_Witness ==
  \E t \in Threads :
    /\ Returning(t) /\ AllInWindow(t)
    /\ Cardinality(EventsOf(fp[t])) = 3
    /\ \E i \in EventsOf(fp[t]) : TimeOf(i) = now[t] - cfg.window_minutes
    /\ count_15m[t] = 3

\* the events of the call's fingerprint registered before the call of t
\* (a single caller: the call's own row is the last of the table)
Earlier(t) == EventsOf(fp[t]) \ {Len(events)}

\* C3 as stated: after N events registered within window minutes of each
\* other, a further event registered more than window minutes after the
\* first of them returns count 1.
C3_ResetAfterFirst ==
  \A t \in Threads :
    ( /\ Returning(t)
      /\ Earlier(t) # {}
      /\ \A i, j \in Earlier(t) : TimeOf(i) - TimeOf(j) <= cfg.window_minutes
      /\ \E i \in Earlier(t) : /\ \A j \in Earlier(t) : TimeOf(i) <= TimeOf(j)
                               /\ now[t] - TimeOf(i) > cfg.window_minutes )
    => count_15m[t] = 1

\* C3 amended: an event registered more than window minutes after every
\* earlier event of its fingerprint returns count 1.
C3_ResetAfterLast ==
  \A t \in Threads :
    ( /\ Returning(t)
      /\ Earlier(t) # {}
      /\ \A i \in Earlier(t) : now[t] - TimeOf(i) > cfg.window_minutes )
    => count_15m[t] = 1

\* C3 witness: two earlier events, both out of the window, and count 1
C3_Witness ==
  \E t \in Threads :
    /\ Returning(t)
    /\ Cardinality(Earlier(t)) >= 2
    /\ \A i \in Earlier(t) : now[t] - TimeOf(i) > cfg.window_minutes
    /\ count_15m[t] = 1

\* thread t takes the report step of register()
ReportStep(t) == pc[t] = "report" /\ pc'[t] = "insert"

\* the report condition of C4, over the stored row st and the new level l
ReportDue(st, l) ==
  /\ l >= 2
  /\ \/ st.level < 2
     \/ st.level < 3 /\ l >= 3
     \/ st.report_path = NullPath

\* C4: the report step of a register() writes a report file exactly when the
\* level is >= 2 and (the stored level is < 2, or the stored level is < 3 and
\* the new level is 3, or the stored row has no report path); otherwise it
\* writes nothing and carries the stored report path forward.
C4_ReportIff ==
  [][ \A t \in Threads : ReportStep(t) =>
        LET st == states[fp[t]]
        IN  /\ ReportDue(st, level[t]) =>
                 /\ Len(writes') = Len(writes) + 1
                 /\ report_path'[t] = writes'[Len(writes')].path
            /\ ~ReportDue(st, level[t]) =>
                 /\ writes' = writes
                 /\ report_path'[t] = st.report_path ]_vars

\* C4 witness: a second report, written at the step into level 3, and the
\* call after it that carries the path
C4_Witness ==
  \E t \in Threads :
    /\ pc[t] = "insert"
    /\ Len(writes) = 2 /\ writes[2].level = 3
    /\ level[t] < 2
    /\ report_path[t] = writes[2].path

\* C5: of 8 rapid registrations of one signature under 3/5/8, the first four
\* return no report path and write nothing, the 5th writes the first report
\* and returns its path, the 6th and 7th write nothing and return that path,
\* and the 8th writes the second report, at level 3.
C5_RapidReports ==
  \A t \in Threads :
    (Returning(t) /\ DefaultThresholds /\ AllInWindow(t)) =>
      LET n == Cardinality(EventsOf(fp[t]))
      IN  /\ n <= 4 => writes = <<>> /\ report_path[t] = NullPath
          /\ n \in 5..7 => /\ Len(writes) = 1
                           /\ writes[1].level = 2 /\ writes[1].count_15m = 5
                           /\ report_path[t] = writes[1].path
          /\ n = 8 => /\ Len(writes) = 2
                      /\ writes[2].level = 3 /\ writes[2].count_15m = 8
                      /\ report_path[t] = writes[2].path

\* C5 witness: the 8th rapid registration has replaced the report
C5_Witness ==
  \E t \in Threads :
    /\ Returning(t) /\ DefaultThresholds /\ AllInWindow(t)
    /\ Cardinality(EventsOf(fp[t])) = 8
    /\ Len(writes) = 2
    /\ report_path[t] = writes[2].path

\* thread t takes the sweep step of tail()
SweepStep(t) == pc[t] = "idle" /\ pc'[t] = "select"

\* C6: in every reachable state, under any interleaving of register() and
\* tail() calls, each incident_states row has level =
\* level_from_count(count_15m); a row that a stale sweep changes has level 0
\* and count 0 afterwards.
C6_LevelMatchesCount ==
  /\ [](\A f \in Fingerprints : states[f] # NoRow =>
          states[f].level = level_from_count(states[f].count_15m))
  /\ [][ \A t \in Threads, f \in Fingerprints :
           (SweepStep(t) /\ states'[f] # states[f]) =>
             states'[f].level = 0 /\ states'[f].count_15m = 0 ]_vars

\* C6 witness: a row that a sweep has reset while a register() of the same
\* fingerprint is in flight
C6_Witness ==
  \E f \in Fingerprints, t \in Threads :
    /\ states[f] # NoRow
    /\ states[f].level = 0 /\ states[f].count_15m = 0 /\ states[f].reset_applied
    /\ pc[t] \in {"count", "report", "insert", "upsert"} /\ fp[t] = f

\* C7: a sweep at a time more than reset_minutes after the last_seen_at of a
\* row with level > 0 leaves that row at level 0, count 0, reset_applied;
\* the rows tail() returns to a single caller are the stored rows; and a
\* register() that finds its fingerprint's row more than reset_minutes old
\* returns count 1, reset_applied, and level 0 when L1 > 1.
C7_ResetAfterSilence ==
  /\ [][ \A t \in Threads, f \in Fingerprints :
           ( /\ SweepStep(t)
             /\ states[f] # NoRow
             /\ states[f].level > 0
             /\ clock - parse_iso_utc(states[f].last_seen_at) > cfg.reset_minutes )
           => /\ states'[f].level = 0
              /\ states'[f].count_15m = 0
              /\ states'[f].reset_applied ]_vars
  /\ [](\A t \in Threads : pc[t] = "tret" =>
          \A i \in DOMAIN out[t] :
            LET st == states[out[t][i].fingerprint]
            IN  /\ out[t][i].level = st.level
                /\ out[t][i].count_15m = st.count_15m
                /\ out[t][i].incident_reset_applied = st.reset_applied)
  /\ [](\A t \in Threads :
          ( /\ Returning(t)
            /\ prev[t] # NoRow
            /\ now[t] - parse_iso_utc(prev[t].last_seen_at) > cfg.reset_minutes )
          => /\ count_15m[t] = 1
             /\ reset_applied[t]
             /\ cfg.level_l1 > 1 => level[t] = 0)

\* C7 witness: the registration after a sweep has reset the row
C7_Witness ==
  \E t \in Threads :
    /\ Returning(t)
    /\ prev[t] # NoRow
    /\ prev[t].level = 0 /\ prev[t].count_15m = 0 /\ prev[t].reset_applied
    /\ now[t] - parse_iso_utc(prev[t].last_seen_at) > cfg.reset_minutes
    /\ count_15m[t] = 1 /\ reset_applied[t]

\* C8: every row that a tail() at time now returns to a single caller and
\* whose last_seen_at is older than now - reset_minutes has level 0.
C8_NoStaleSeverity ==
  \A t \in Threads : pc[t] = "tret" =>
    \A i \in DOMAIN out[t] :
      tnow[t] - parse_iso_utc(out[t][i].last_seen_at) > cfg.reset_minutes
        => out[t][i].level = 0

\* C8 witness: tail() returns a row that had gone quiet at an elevated level
C8_Witness ==
  \E t \in Threads : \E i \in DOMAIN out[t] :
    /\ pc[t] = "tret"
    /\ tnow[t] - parse_iso_utc(out[t][i].last_seen_at) > cfg.reset_minutes
    /\ out[t][i].incident_reset_applied
    /\ out[t][i].level = 0 /\ out[t][i].count_15m = 0

\* C9: for a single caller, register() computes reset_applied = true exactly
\* when a row of its fingerprint is stored and now - last_seen_at >=
\* reset_minutes, and stores and returns that flag; the first registration
\* of a fingerprint has it false; and the count returned is the number of
\* events of the fingerprint in the window, whatever the flag.
C9_ResetFlag ==
  \A t \in Threads :
    /\ pc[t] = "count" =>
         reset_applied[t] =
           ( /\ states[fp[t]] # NoRow
             /\ now[t] - parse_iso_utc(states[fp[t]].last_seen_at) >= cfg.reset_minutes )
    /\ Returning(t) =>
         /\ states[fp[t]].reset_applied = reset_applied[t]
         /\ Earlier(t) = {} => ~reset_applied[t]
         /\ count_15m[t] =
              Cardinality({i \in EventsOf(fp[t]) : TimeOf(i) >= now[t] - cfg.window_minutes})

\* C9 witness: a registration exactly reset_minutes after the last one, with
\* the flag set and the earlier event still counted
C9_Witness ==
  \E t \in Threads :
    /\ Returning(t)
    /\ reset_applied[t]
    /\ now[t] - parse_iso_utc(prev[t].last_seen_at) = cfg.reset_minutes
    /\ count_15m[t] = 2

\* C10: two register() calls of one fingerprint that read the same clock
\* never hold the same window count (as in a serial order, where the later
\* of them counts the event of the earlier).
C10_AtomicRegister ==
  \A t, u \in Threads :
    ( /\ t # u
      /\ pc[t] \in {"report", "insert", "upsert", "ret"}
      /\ pc[u] \in {"report", "insert", "upsert", "ret"}
      /\ fp[t] = fp[u]
      /\ now[t] = now[u] )
    => count_15m[t] # count_15m[u]

\* the register() of thread t has written a report file
Wrote(t) == pc[t] \in {"insert", "upsert", "ret"} /\ should_report(t)

\* C11: two register() calls of one fingerprint that are in flight together
\* and found the same stored row never both write a report for the step into
\* the same level.
C11_OneReportPerStep ==
  \A t, u \in Threads :
    ( /\ t # u
      /\ fp[t] = fp[u]
      /\ pc[t] \in {"insert", "upsert"} /\ pc[u] \in {"insert", "upsert"}
      /\ prev[t] = prev[u]
      /\ level[t] = level[u] )
    => ~(Wrote(t) /\ Wrote(u))

\* C12: a stored report_path that is not null is not null after any step of
\* any register() or tail(), under any interleaving.
C12_StickyPath ==
  [][ \A f \in Fingerprints :
        states[f].report_path # NullPath => states'[f].report_path # NullPath ]_vars

\* C12 witness: a register() at level 1 that wrote no report and carried no
\* path has upserted a row that holds a report path
C12_Witness ==
  \E t \in Threads :
    /\ Returning(t)
    /\ level[t] < 2
    /\ report_path[t] = NullPath
    /\ states[fp[t]].report_path # NullPath

\* no register() of fingerprint f is in flight
Quiet(f) == \A t \in Threads : fp[t] = f => pc[t] \in {"idle", "ret"}

\* the report writes of fingerprint f, as positions of the write log
WritesOf(f) == {i \in DOMAIN writes : writes[i].path[1] = f}

\* C13: when no register() of a fingerprint is in flight, the stored
\* report_path of the fingerprint is the path of its most recent report write.
C13_NewestReport ==
  \A f \in Fingerprints :
    (Quiet(f) /\ WritesOf(f) # {}) =>
      states[f].report_path =
        writes[CHOOSE i \in WritesOf(f) : \A j \in WritesOf(f) : j <= i].path

\* thread t takes the insert step of register()
InsertStep(t) == pc[t] = "insert" /\ pc'[t] = "upsert"

\* the incident_events row of the register() of thread t
EventRow(t) ==
  [fingerprint |-> fp[t], level |-> level[t], count_15m |-> count_15m[t],
   event_ts |-> iso_from_dt(now[t]), report_path |-> report_path[t]]

\* C14: every step leaves the rows of incident_events as they are, the insert
\* step of a register() adds one row at the end and no other step adds any;
\* a register() past its insert step has its row in the table.
C14_AppendOnly ==
  /\ [][ /\ Len(events') >= Len(events)
         /\ SubSeq(events', 1, Len(events)) = events
         /\ Len(events') = Len(events) + Cardinality({t \in Threads : InsertStep(t)})
         /\ \A t \in Threads : InsertStep(t) => events'[Len(events')] = EventRow(t) ]_vars
  /\ [](\A t \in Threads : pc[t] \in {"upsert", "ret"} =>
          \E i \in DOMAIN events : events[i] = EventRow(t))

\* C14 witness: a tail() whose sweep reset a row, with both events in the log
C14_Witness ==
  \E t \in Threads, f \in Fingerprints :
    /\ pc[t] = "tret"
    /\ states[f].reset_applied /\ states[f].level = 0 /\ states[f].count_15m = 0
    /\ Cardinality(EventsOf(f)) = 2
    /\ \E i \in EventsOf(f) : events[i].level > 0

\* C15: for a single caller, the event row of a register() that wrote no
\* report has report_path null.
C15_EventPathOwnReport ==
  \A t \in Threads :
    (pc[t] \in {"upsert", "ret"} /\ ~should_report(t)) =>
      events[Len(events)].report_path = NullPath

\* thread t takes the upsert step of register()
UpsertStep(t) == pc[t] = "upsert" /\ pc'[t] = "ret"

\* C16: a fingerprint's incident_states row is created by the upsert step of
\* a register() of that fingerprint and by nothing else; once it exists, every
\* step keeps it, under its fingerprint and with its first_seen_at; and a
\* register() that has upserted has a row.
C16_OneRowPerFingerprint ==
  /\ [][ \A f \in Fingerprints :
           /\ states[f] # NoRow =>
                /\ states'[f] # NoRow
                /\ states'[f].fingerprint = f
                /\ states'[f].first_seen_at = states[f].first_seen_at
           /\ (states[f] = NoRow /\ states'[f] # NoRow) =>
                \E t \in Threads : UpsertStep(t) /\ fp[t] = f ]_vars
  /\ [](\A f \in Fingerprints : states[f] # NoRow =>
          /\ states[f].fingerprint = f
          /\ EventsOf(f) # {})
  /\ [](\A t \in Threads : Returning(t) => states[fp[t]] # NoRow)

\* C16 witness: a register() that found no row when it started has upserted
\* onto the row another register() created at another time
C16_Witness ==
  \E t \in Threads :
    /\ Returning(t)
    /\ prev[t] = NoRow
    /\ states[fp[t]].first_seen_at # iso_from_dt(now[t])
    /\ states[fp[t]].last_seen_at = iso_from_dt(now[t])

\* C17: for a single caller, the count of a register() at time now is 1 plus
\* the number of earlier events of its fingerprint that are at most window
\* minutes old (an event exactly window minutes old included).
C17_WindowInclusive ==
  \A t \in Threads : pc[t] \in {"report", "insert"} =>
    /\ count_15m[t] >= 1
    /\ count_15m[t] =
         1 + Cardinality({i \in EventsOf(fp[t]) : now[t] - TimeOf(i) <= cfg.window_minutes})

\* C17 witness: an earlier event exactly window minutes old is counted and
\* one older than that is not
C17_Witness ==
  \E t \in Threads :
    /\ pc[t] = "report"
    /\ \E i \in EventsOf(fp[t]) : now[t] - TimeOf(i) = cfg.window_minutes
    /\ \E i \in EventsOf(fp[t]) : now[t] - TimeOf(i) > cfg.window_minutes
    /\ count_15m[t] = 2

\* C18: the rows a tail() returns are in descending order of last_seen_at.
C18_TailOrder ==
  \A t \in Threads : pc[t] = "tret" =>
    \A i, j \in DOMAIN out[t] : i < j =>
      parse_iso_utc(out[t][i].last_seen_at) >= parse_iso_utc(out[t][j].last_seen_at)

\* C18 witness: a tail() returns two rows last seen at different times
C18_Witness ==
  \E t \in Threads :
    /\ pc[t] = "tret"
    /\ Len(out[t]) = 2
    /\ parse_iso_utc(out[t][1].last_seen_at) > parse_iso_utc(out[t][2].last_seen_at)

\* the tail() arguments explored
TailLimits == 1..MaxLimit
TailFilters == signatures \cup {""}
TailLevels == 0..3

\* the rows of a listing u whose level is at least m, in the order of u
Keep(u, m) == SelectSeq(u, LAMBDA g : states[g].level >= m)

\* the first k rows of a listing u
First(u, k) == SubSeq(u, 1, IF Len(u) < k THEN Len(u) ELSE k)

\* C19 as stated: when a tail() has swept and is about to select, every
\* result of tail(limit, min_level=m) on that store is a result of tail(limit)
\* with the rows of level < m left out (rows last seen at the same time may
\* come in either order in both).
C19_PostFilter ==
  \A t \in Threads : pc[t] = "select" =>
    \A lim \in TailLimits, f \in TailFilters, m \in TailLevels :
      \A s \in Selected(TailArgs(lim, f, m)) :
        \E u \in Selected(TailArgs(lim, f, 0)) : s = Keep(u, m)

\* C19 amended: when a tail() has swept and is about to select, the results
\* of tail(limit, min_level=m) on that store are the first limit rows of the
\* complete unfiltered listing with the rows of level < m left out.
C19_FilterThenLimit ==
  \A t \in Threads : pc[t] = "select" =>
    \A lim \in TailLimits, f \in TailFilters, m \in TailLevels :
      Selected(TailArgs(lim, f, m)) =
        {First(Keep(u, m), lim) : u \in Selected(TailArgs(Cardinality(Fingerprints), f, 0))}

\* C19 witness: a tail() with limit 1 is about to select from a store whose
\* most recently seen row is below the level asked for and whose older row is
\* not
C19_Witness ==
  \E t \in Threads, g, h \in Fingerprints, m \in TailLevels :
    /\ pc[t] = "select"
    /\ states[g] # NoRow /\ states[h] # NoRow
    /\ states[g].level < m /\ states[h].level >= m
    /\ TextLt(states[h].last_seen_at, states[g].last_seen_at)
    /\ Selected(TailArgs(1, "", m)) = {<<h>>}

\* the redaction of a context mapping has been computed
Redacted == safe_context_raw # NoValue /\ context.kind = "dict"

\* a scalar that holds no secret-value pattern
Benign(v) ==
  \/ v.kind \in {"int", "bool"}
  \/ v.kind = "str" /\ \A i \in DOMAIN v.text : v.text[i] \notin BearerWords \cup SkWords \cup XoxWords

\* the mask token as a value
Masked == Str(<<Mask>>)

\* C20: in the redacted context, the value of every key with a
\* credential-shaped name is exactly the mask token whatever the value was
\* (a key without a value aside), also for such keys inside a nested sub-map
\* under an unrelated key, and an unrelated key's benign scalar is kept as it
\* was.
C20_MaskByKey ==
  Redacted =>
    \A i \in DOMAIN context.keys :
      LET k == context.keys[i]
          v == context.items[i]
          w == safe_context_raw.items[i]
      IN  /\ (SensitiveKey(k) /\ v.kind # "none") => w = Masked
          /\ (~SensitiveKey(k) /\ v.kind = "dict") =>
               \A j \in DOMAIN v.keys :
                 /\ (SensitiveKey(v.keys[j]) /\ v.items[j].kind # "none") =>
                      w.items[j] = Masked
                 /\ (~SensitiveKey(v.keys[j]) /\ Benign(v.items[j])) =>
                      w.items[j] = v.items[j]
          /\ (~SensitiveKey(k) /\ Benign(v)) => w = v

\* the lexemes that are secrets by pattern
SecretWords == SkWords \cup XoxWords

\* the text t holds a match of a secret-value pattern
HoldsSecret(t) ==
  \/ \E i \in DOMAIN t : t[i] \in SecretWords
  \/ \E i \in DOMAIN t : i < Len(t) /\ t[i] \in BearerWords /\ t[i + 1] \in TokenWords

\* the output w still shows the scalar v
Shows(w, v) ==
  \/ v.kind \in {"int", "bool"} /\ w = v
  \/ v.kind \in {"str", "obj"} /\ w.kind = "str" /\ \E i \in DOMAIN v.text : \E j \in DOMAIN w.text : w.text[j] = v.text[i]

\* the output w of redacting v holds no scalar of v that sits under a
\* credential-shaped key (under tells whether v itself does) and no match of
\* a secret-value pattern
RECURSIVE NoLeak(_, _, _)
NoLeak(v, w, under) ==
  IF w.kind = "str" /\ w.text = <<DepthMarker>> THEN TRUE
  ELSE CASE v.kind = "none" -> TRUE
         [] v.kind \in {"list", "tuple"} ->
              \A i \in DOMAIN w.items : NoLeak(v.items[i], w.items[i], under)
         [] v.kind = "dict" ->
              \A i \in DOMAIN w.items :
                NoLeak(v.items[i], w.items[i], under \/ SensitiveKey(v.keys[i]))
         [] OTHER ->
              /\ under => ~Shows(w, v)
              /\ w.kind = "str" => ~HoldsSecret(w.text)

\* C21: the redacted context holds no literal value of an input that sits
\* under a credential-shaped key, at any nesting, and no match of a
\* secret-value pattern.
C21_NoLiteralLeak ==
  Redacted => NoLeak(context, safe_context_raw, FALSE)

\* C30: every report write of register() goes to a path that no earlier report
\* write used, so no report file is overwritten
C30_ReportNeverOverwritten ==
  \A i \in DOMAIN writes : \A j \in DOMAIN writes : i < j => writes[i].path # writes[j].path

\* C29: whatever the constructor arguments, the effective configuration has
\* window_minutes >= 1, reset_minutes >= window_minutes and
\* 1 <= level_l1 <= level_l2 <= level_l3.
C29_ConfigFloors ==
  cfg # NoConfig =>
    /\ cfg.window_minutes >= 1
    /\ cfg.reset_minutes >= cfg.window_minutes
    /\ 1 <= cfg.level_l1
    /\ cfg.level_l1 <= cfg.level_l2
    /\ cfg.level_l2 <= cfg.level_l3

\* a manager constructed with a window below one, a reset delay below the
\* window and thresholds given in descending order
C29_Witness ==
  /\ cfg # NoConfig
  /\ ctor_args.window_minutes < 1
  /\ ctor_args.reset_minutes < ctor_args.window_minutes
  /\ ctor_args.level_l3 < ctor_args.level_l2
  /\ ctor_args.level_l2 < ctor_args.level_l1

\* C25: when a register() that should produce a report gets no file written,
\* it goes on to append the event and upsert the state with report_path null
\* or the prior sticky path; the failure does not leave register().
C25_ReportFailureAbsorbed ==
  [][\A t \in Threads :
       (pc[t] = "report" /\ should_report(t) /\ pc'[t] # "report" /\ writes' = writes) =>
         /\ pc'[t] = "insert"
         /\ report_path'[t] = carried_path(t)]_vars

\* C26: when register() raises, the producer's next step writes its own log
\* entry with the default incident fields (fingerprint null, level 0, count 0,
\* reset false) and the producer ends normally.
C26_ProducerStillLogs ==
  [][\A t \in Threads :
       (pc[t] = "raised" /\ pc'[t] # "raised") =>
         /\ pc'[t] = "idle"
         /\ log' = Append(log, LogEntry(fp[t], DefaultMeta))]_vars

\* both producers have logged a failure whose register() call raised, and
\* nothing was stored
C26_Witness ==
  /\ \E i \in DOMAIN log : log[i].producer = "log_error" /\ log[i].meta = DefaultMeta
  /\ \E i \in DOMAIN log : log[i].producer = "client_events" /\ log[i].meta = DefaultMeta
  /\ events = <<>>

\* C27: tail() leaves a row whose last_event_json is malformed out of its
\* result: every row it returns has a well-formed snapshot.
C27_MalformedSkipped ==
  [][\A t \in Threads :
       (pc[t] = "select" /\ pc'[t] = "tret") =>
         \A i \in DOMAIN out'[t] : states[out'[t][i].fingerprint].last_event_json.closed]_vars

\* a stored text shows no match of a secret-value pattern
TextClean(v) == v.kind = "str" => ~HoldsSecret(v.text)

\* no string of a stored tree shows a match of a secret-value pattern
RECURSIVE TreeClean(_)
TreeClean(v) ==
  CASE v.kind \in {"list", "tuple", "dict"} -> \A i \in DOMAIN v.items : TreeClean(v.items[i])
    [] OTHER -> TextClean(v)

\* C22: no text that register() persists (error type, message, stack,
\* context, stage, event name, trace, request and run id of the event row; the
\* last-event summary and the last ids of the state row) contains a match of
\* a secret-value pattern.
C22_NoSecretPersisted ==
  \A i \in DOMAIN persisted :
    LET e == persisted[i].event
        st == persisted[i].state
        le == st.last_event_json.doc
    IN  /\ \A v \in {e.error_type, e.message, e.stack, e.stage, e.event, e.trace_id,
                      e.request_id, e.run_id} : TextClean(v)
        /\ TreeClean(e.context_json.doc)
        /\ \A v \in {le.stage, le.event, le.error_type, le.message} : TextClean(v)
        /\ \A v \in {st.last_trace_id, st.last_request_id, st.last_run_id} : TextClean(v)

\* the two calls have the same error type, message and stack
SameFailure ==
  /\ Len(calls) = 2
  /\ Len(safe) = 2
  /\ calls[1].error_type = calls[2].error_type
  /\ calls[1].message = calls[2].message
  /\ calls[1].stack = calls[2].stack

\* the high-cardinality fields of the explored contexts: a random request id
\* and a nonce
HighCardinality == {<<"request_id">>, <<"nonce">>}

\* C23: two calls with the same type, message and stack whose contexts differ
\* only in high-cardinality fields get the same fingerprint.
C23_VolatileIgnored ==
  (/\ SameFailure
   /\ \A i \in DOMAIN CallKeys :
        CallKeys[i] \notin HighCardinality =>
          Get(calls[1].context, CallKeys[i]) = Get(calls[2].context, CallKeys[i]))
  => safe[1].fingerprint = safe[2].fingerprint

\* C24: two calls with the same type, message and stack that differ in stage
\* or reason get different fingerprints.
C24_StageSplits ==
  (/\ SameFailure
   /\ \/ calls[1].stage # calls[2].stage
      \/ calls[1].event # calls[2].event
      \/ \E k \in {<<"stage">>, <<"event">>, <<"reason">>} :
           Get(calls[1].context, k) # Get(calls[2].context, k))
  => safe[1].fingerprint # safe[2].fingerprint

\* C28: a call whose error type or message is missing or empty is persisted
\* like any other, under a fallback default type when the type is missing.
C28_FallbackType ==
  /\ Len(persisted) = Len(calls) =>
       \A i \in DOMAIN calls : persisted[i].event.fingerprint = safe[i].fingerprint
  /\ \A i \in DOMAIN persisted :
       Falsy(calls[i].error_type) => ~Falsy(persisted[i].event.error_type)

\* the time between the call of thread t and the last_seen_at it found stored
Gap(t) == now[t] - parse_iso_utc(prev[t].last_seen_at)

\* C34 as stated: whenever register() returns reset_applied = true it returns
\* count 1.
C34_ResetMeansOne ==
  \A t \in Threads : (Returning(t) /\ reset_applied[t]) => count_15m[t] = 1

\* C34: a register() of a single caller that returns reset_applied = true
\* after a gap longer than the window returns count 1.
C34_ResetBeyondWindow ==
  \A t \in Threads :
    (Returning(t) /\ reset_applied[t] /\ Gap(t) > cfg.window_minutes) => count_15m[t] = 1

\* a registration exactly reset_minutes after the last one, the reset delay
\* being longer than the window, after several events of the fingerprint
C34_Witness ==
  \E t \in Threads :
    /\ Returning(t)
    /\ reset_applied[t]
    /\ Gap(t) = cfg.reset_minutes
    /\ cfg.reset_minutes > cfg.window_minutes
    /\ Cardinality(EventsOf(fp[t])) >= 3
    /\ count_15m[t] = 1

\* the time between a sweep at the current clock and the last_seen_at of f
Silence(f) == clock - parse_iso_utc(states[f].last_seen_at)

\* C35 as stated: a sweep at a time at which register() would set
\* reset_applied (now - last_seen_at >= reset_minutes) resets a stored
\* level > 0 to 0.
C35_StaleAgreement ==
  [][ \A t \in Threads, f \in Fingerprints :
        ( /\ SweepStep(t)
          /\ states[f] # NoRow
          /\ states[f].level > 0
          /\ Silence(f) >= cfg.reset_minutes )
        => states'[f].level = 0 ]_vars

\* C35: a sweep more than reset_minutes after last_seen_at resets a stored
\* level > 0 to 0, and a sweep exactly reset_minutes after last_seen_at,
\* where register() would already set reset_applied, leaves the row as it is.
C35_StaleBeyondBoundary ==
  [][ \A t \in Threads, f \in Fingerprints :
        ( /\ SweepStep(t)
          /\ states[f] # NoRow
          /\ states[f].level > 0 )
        => /\ Silence(f) > cfg.reset_minutes => states'[f].level = 0
           /\ Silence(f) = cfg.reset_minutes => states'[f] = states[f] ]_vars

\* a tail() has swept exactly reset_minutes after the last registration of a
\* fingerprint and its level is still above 0
C35_Witness ==
  \E t \in Threads, f \in Fingerprints :
    /\ pc[t] = "select"
    /\ states[f] # NoRow
    /\ states[f].level > 0
    /\ tnow[t] - parse_iso_utc(states[f].last_seen_at) = cfg.reset_minutes

\* the fields of a state row that the sweep may change, blanked
SweptFields(row) ==
  [row EXCEPT !.level = 0, !.count_15m = 0, !.reset_applied = FALSE, !.updated_at = <<>>]

\* C36: a sweep changes only rows with level > 0 whose last_seen_at is more
\* than reset_minutes old, and in them only level, count_15m, reset_applied
\* and updated_at; every other row, the level-0 rows with their counts
\* included, and the events stay as they are.
C36_SweepFrame ==
  [][ \A t \in Threads : SweepStep(t) =>
        /\ events' = events
        /\ \A f \in Fingerprints :
             /\ states[f] = NoRow => states'[f] = NoRow
             /\ states[f] # NoRow =>
                  /\ SweptFields(states'[f]) = SweptFields(states[f])
                  /\ (states[f].level = 0 \/ Silence(f) <= cfg.reset_minutes)
                       => states'[f] = states[f] ]_vars

\* a tail() has swept an elevated stale row and has left a stale level-0 row
\* with its count of 1
C36_Witness ==
  \E t \in Threads, f, g \in Fingerprints :
    /\ pc[t] = "select"
    /\ states[f] # NoRow /\ states[g] # NoRow
    /\ states[f].level = 0 /\ states[f].count_15m = 1 /\ ~states[f].reset_applied
    /\ tnow[t] - parse_iso_utc(states[f].last_seen_at) > cfg.reset_minutes
    /\ states[g].level = 0 /\ states[g].count_15m = 0 /\ states[g].reset_applied
    /\ states[g].updated_at = iso_from_dt(tnow[t])
    /\ states[g].last_seen_at # states[g].updated_at
    /\ states[g].report_path # NullPath

\* every argument triple of a tail() call
AllTailArgs ==
  {TailArgs(lim, f, m) : lim \in 1..MaxLimit, f \in signatures \cup {""}, m \in 0..3}

\* the lists a tail() with arguments a can return from the stored rows
Results(a) == {[i \in DOMAIN s |-> out_row(states[s[i]])] : s \in Selected(a)}

\* thread u starts a tail() after the sweep of a tail() of thread t, with no
\* clock change and no register() in between
SecondTail(t, u) ==
  /\ t # u
  /\ callers = {t}
  /\ pc[t] \in {"select", "tret"}
  /\ tnow[t] = clock
  /\ SweepStep(u)

\* C37: a second tail() with no clock change and no register() since the
\* first leaves every state row as it is, and for every argument triple the
\* list it returns is the one list the first returns.
C37_TailIdempotent ==
  /\ [][ \A t, u \in Threads : SecondTail(t, u) =>
           /\ states' = states
           /\ \A a \in AllTailArgs : Results(a)' = Results(a) ]_vars
  /\ [](\A t \in Threads : pc[t] \in {"select", "tret"} =>
          \A a \in AllTailArgs : Cardinality(Results(a)) = 1)

\* two tail() calls at the same time hold the same two rows of equal
\* last_seen_at, both reset by the sweep of the first
C37_Witness ==
  /\ pc["t1"] = "tret" /\ pc["t2"] = "tret"
  /\ callers = {"t1"}
  /\ tnow["t1"] = tnow["t2"]
  /\ Len(out["t1"]) = 2
  /\ out["t2"] = out["t1"]
  /\ out["t1"][1].last_seen_at = out["t1"][2].last_seen_at
  /\ out["t1"][1].incident_reset_applied /\ out["t1"][1].level = 0

\* the most recently appended incident_events row of fingerprint f
LatestEvent(f) == events[CHOOSE i \in EventsOf(f) : \A j \in EventsOf(f) : j <= i]

\* no sweep has rewritten the row of f since its last upsert
Unswept(f) == states[f].updated_at = states[f].last_seen_at

\* C38: when no register() of a fingerprint is in flight and no sweep has
\* touched its row since the last upsert, the row's last_seen_at, level and
\* count_15m are those of the fingerprint's most recently appended event; and
\* no step moves a row's last_seen_at back.
C38_StateFollowsLatestEvent ==
  /\ [](\A f \in Fingerprints :
          (Quiet(f) /\ states[f] # NoRow /\ Unswept(f)) =>
             /\ states[f].last_seen_at = LatestEvent(f).event_ts
             /\ states[f].level = LatestEvent(f).level
             /\ states[f].count_15m = LatestEvent(f).count_15m)
  /\ [][ \A f \in Fingerprints :
           states[f] # NoRow =>
             TextGe(states'[f].last_seen_at, states[f].last_seen_at) ]_vars

\* the job has been submitted and its wrapped() has ended
Finished(j) == submitter[j] = "done" /\ worker[j] = "done"

\* the moves of a job's status that the claim allows
JobMoves ==
  {<<"", "queued">>, <<"queued", "running">>, <<"running", "succeeded">>,
   <<"running", "failed">>}

\* C39: once submit_async_job has returned and wrapped() has ended, with the
\* status succeeded or failed, active_futures has no entry for the job; and a
\* job's status only moves queued -> running -> succeeded or failed.
C39_FinishedJobUntracked ==
  /\ [](\A j \in JobIds :
          (Finished(j) /\ jobs[j] \in {"succeeded", "failed"}) => j \notin active_futures)
  /\ [][ \A j \in JobIds :
           jobs'[j] # jobs[j] => <<jobs[j], jobs'[j]>> \in JobMoves ]_vars

\* the moves of a video's status that the claim allows
VideoMoves ==
  {<<"", "QUEUED">>, <<"QUEUED", "PROCESSING">>, <<"PROCESSING", "PROCESSING">>,
   <<"PROCESSING", "COMPLETE">>, <<"PROCESSING", "FAILED">>}

\* C40: a video's status only moves QUEUED -> PROCESSING -> COMPLETE or
\* FAILED, so a run that has set COMPLETE never sets FAILED afterwards; and a
\* run in which only the subtitle stage raised does not end in FAILED.
C40_CompleteIsTerminal ==
  /\ [][ \A v \in VideoIds :
           videos'[v] # videos[v] => <<videos[v], videos'[v]>> \in VideoMoves ]_vars
  /\ [](\A v \in VideoIds :
          videos[v] = "FAILED" => pipeline[v].raised # {"subtitles"})

\* the detector output of the call has no silence marker
NoMarkers ==
  \A i \in DOMAIN detected.stderr : detected.stderr[i].kind = ""

\* the first silence of the call starts after the beginning
LeadingSound == silences(detected) # <<>> /\ silences(detected)[1][1] > 0

\* the segment before the first silence is long enough to be kept
LeadKept ==
  silences(detected)[1][1] + detected.padding_after >= detected.min_segment_duration

RECURSIVE Deepest(_, _)
Deepest(w, depth) ==
  IF w.kind \in {"list", "tuple", "dict"} /\ w.items # <<>>
  THEN LET below == {Deepest(w.items[i], depth + 1) : i \in DOMAIN w.items}
       IN  CHOOSE d \in below : \A e \in below : e <= d
  ELSE depth

\* every node of tree w that lies beyond the depth cap is the marker
RECURSIVE MarkedBeyondCap(_, _)
MarkedBeyondCap(w, depth) ==
  IF depth > DepthCap THEN w = Str(<<DepthMarker>>)
  ELSE \A i \in DOMAIN w.items : MarkedBeyondCap(w.items[i], depth + 1)

\* tree w holds the depth-limit marker
RECURSIVE HasMarker(_)
HasMarker(w) ==
  \/ w = Str(<<DepthMarker>>)
  \/ \E i \in DOMAIN w.items : HasMarker(w.items[i])

\* tree w with every subtree beyond the depth cap replaced by another value
RECURSIVE Pruned(_, _)
Pruned(w, depth) ==
  IF depth > DepthCap THEN IntVal(0)
  ELSE [w EXCEPT !.items = [i \in DOMAIN w.items |-> Pruned(w.items[i], depth + 1)]]

\* the value register() hands to redact_data: context or {}
Handed == IF context = None \/ context = Dict(<<>>, <<>>) THEN Dict(<<>>, <<>>) ELSE context

\* C32: redact_data ends on contexts nested beyond the cap and on mappings
\* that contain themselves; its result has no node deeper than the cap plus
\* one, every node at that depth is the depth-limit marker, the result does
\* not depend on what lies beyond the cap, and a context of at most DepthCap
\* levels gets no marker.
C32_DepthBounded ==
  safe_context_raw # NoValue =>
    /\ Deepest(safe_context_raw, 0) <= DepthCap + 1
    /\ MarkedBeyondCap(safe_context_raw, 0)
    /\ safe_context_raw = redact_data(Pruned(Handed, 0), <<"context">>, 0)
    /\ Deepest(Handed, 0) <= DepthCap => ~HasMarker(safe_context_raw)
    /\ 8 <= DepthCap

\* the mapping that contains itself has been redacted: the result ends in
\* markers at depth cap + 1
C32_Witness ==
  /\ context = Cyclic(DepthCap + 2)
  /\ safe_context_raw # NoValue
  /\ Deepest(safe_context_raw, 0) = DepthCap + 1
  /\ HasMarker(safe_context_raw)

\* C31: under fair scheduling no operation blocks for ever.  Every register()
\* that was started returns or raises and its producer goes on, every tail()
\* that holds the lock for its sweep returns, every job handed to the
\* executor is run to the end of wrapped(), and the Db lock is always given
\* back: a thread that waits for the lock, with tail() called again and again
\* or not, gets it.
Waiting(t) == AtStatement(t) /\ db_lock.thread # t

====
